---- MODULE Spec2Model ----
(***************************************************************************)
(* Model of the local-explanation post-processing of the text             *)
(* explainability notebook (src/unnamed/part_000): visualization_record,   *)
(* which normalizes a vector of token attributions, optionally keeps only  *)
(* the most salient fraction of it, and assembles the record handed to     *)
(* the renderer.                                                           *)
(*                                                                         *)
(* Numbers.  The code computes on IEEE 754 doubles held in numpy arrays,   *)
(* and so does the model: a finite double is a sign, a significand of 53   *)
(* bits and an exponent, next to the two infinities and NaN, and every     *)
(* operation rounds its exact result to the nearest double, a tie going to *)
(* the even significand.  The significand is written in digits of 14 bits, *)
(* so that no step of the arithmetic leaves the integers of TLC.           *)
(***************************************************************************)
EXTENDS Integers, Sequences, FiniteSets, TLC

VARIABLES
    attributions,      \* argument: the attributions of the tokens
    text,              \* argument: the tokens
    pred,              \* argument: the prediction of the endpoint
    delta,             \* argument
    true_label,        \* argument: the label of the dataset
    normalize,         \* argument
    max_frac_to_show,  \* argument: [none: BOOLEAN, v: number]
    match_to_pred,     \* argument
    num_show,          \* local of the salience branch
    top_idxs,          \* local of the salience branch: argsort(-sal)[:num_show]
    record,            \* the VisualizationDataRecord returned
    error,             \* the exception raised, "" when none
    pc,                \* "call", "returned" or "raised"; "idle" between calls
    calls,             \* calls in progress side by side: for an instance, the
                       \* parameters and locals of its call and the statement
                       \* it is at
    \* The notebook around the function
    df_val,                \* rows of df_val, the frame behind test_dataset
    df_test_clarify,       \* the rows sampled for the explainability job
    file_lines,            \* the lines of out.jsonl
    shap_out,              \* the parsed lines
    attributions_dataset,  \* one attribution array per record
    tokens_dataset,        \* one token array per record
    preds,                 \* the response of the endpoint, one row per instance
    labels,                \* test_dataset["Sentiment"][:num_examples]
    vis,                   \* the records built by the loop
    visited,               \* for each record of vis, the instance it was built from
    cur_idx,               \* the instance of the call in progress
    bpc,                   \* the cell being run; "direct" for a call outside the notebook
    \* numpy
    argsort_memo,          \* the arrays np.argsort has sorted, each with the order it gave
    sum_identity,          \* the value the installed NumPy starts a sum from
    \* A caller that calls visualization_record a second time
    given,                 \* the arrays and values the caller made, as it made them
    first,                 \* the arguments and the record of its first call
    \* create_target_column
    df,                    \* argument: the rows of the frame
    min_positive_score,    \* argument
    max_negative_score,    \* argument
    df_target,             \* the frame returned
    \* The fairness notebook
    adult_data,            \* the rows read from adult.data
    adult_test,            \* the rows read from adult.test
    training_data,         \* training_data after number_encode_features
    testing_data,          \* testing_data after number_encode_features
    models,                \* the SageMaker models of the account
    endpoints,             \* its endpoints
    endpoint_configs,      \* its endpoint configs
    events,                \* the calls the notebook made that created, used or deleted one
    fpc                    \* the cell of the fairness notebook being run

callvars == <<attributions, text, pred, delta, true_label, normalize,
              max_frac_to_show, match_to_pred, num_show, top_idxs, record,
              error, pc, argsort_memo, calls>>

nbvars == <<df_val, df_test_clarify, file_lines, shap_out,
            attributions_dataset, tokens_dataset, preds, labels, vis,
            visited, cur_idx, bpc>>

\* What lies outside the text explainability notebook and a single call.
xvars == <<sum_identity, given, first, df, min_positive_score, max_negative_score,
           df_target, adult_data, adult_test, training_data, testing_data,
           models, endpoints, endpoint_configs, events, fpc>>

vars == <<callvars, nbvars, xvars>>

args == <<attributions, text, pred, delta, true_label, normalize,
          max_frac_to_show, match_to_pred>>

----------------------------------------------------------------------------
(* Bounds *)

MaxLen == 3

----------------------------------------------------------------------------
(* Numbers *)

\* The base of the digits the significand of a double is written in.
Base == 2 ^ 14

\* Digit j of the natural number N, a little-endian sequence of digits.
Digit(N, j) == IF j >= 1 /\ j <= Len(N) THEN N[j] ELSE 0

\* The tuple of the values of f, each computed once: the digits of a
\* number, the entries of an array.
Array(f) == SubSeq(f, 1, Len(f))

\* The number of bits of a digit.
DigitBits(v) ==
    IF v >= 128
    THEN IF v >= 2048
         THEN (IF v >= 8192 THEN 14 ELSE IF v >= 4096 THEN 13 ELSE 12)
         ELSE IF v >= 512 THEN (IF v >= 1024 THEN 11 ELSE 10)
         ELSE (IF v >= 256 THEN 9 ELSE 8)
    ELSE IF v >= 8
         THEN IF v >= 32 THEN (IF v >= 64 THEN 7 ELSE 6)
              ELSE (IF v >= 16 THEN 5 ELSE 4)
         ELSE IF v >= 4 THEN 3 ELSE IF v >= 2 THEN 2 ELSE v

\* The number of bits of N; 0 for N = 0.
BitLen(N) ==
    LET nz == {j \in 1..Len(N) : N[j] # 0}
    IN  IF nz = {} THEN 0
        ELSE LET t == CHOOSE j \in nz : \A i \in nz : i <= j
             IN  14 * (t - 1) + DigitBits(N[t])

\* N * 2^sh on n digits.
BShl(N, sh, n) ==
    LET w == sh \div 14
        b == sh % 14
    IN  Array([j \in 1..n |->
                   (Digit(N, j - w) % (2 ^ (14 - b))) * (2 ^ b)
                   + (Digit(N, j - w - 1) \div (2 ^ (14 - b)))])

\* floor(N / 2^sh) on n digits.
BShr(N, sh, n) ==
    LET w == sh \div 14
        b == sh % 14
    IN  Array([j \in 1..n |->
                   (Digit(N, j + w) \div (2 ^ b))
                   + (Digit(N, j + w + 1) % (2 ^ b)) * (2 ^ (14 - b))])

\* Bit i of N, bit 0 the lowest.
BBit(N, i) == (Digit(N, (i \div 14) + 1) \div (2 ^ (i % 14))) % 2

\* The sh lowest bits of N are all 0.
LowBitsZero(N, sh) ==
    /\ \A j \in 1..(sh \div 14) : Digit(N, j) = 0
    /\ Digit(N, (sh \div 14) + 1) % (2 ^ (sh % 14)) = 0

\* The digits of the number whose digit j, before the carries, is S[j].
RECURSIVE Carry(_, _, _)
Carry(S, j, c) ==
    IF j > Len(S) THEN <<>>
    ELSE <<(S[j] + c) % Base>> \o Carry(S, j + 1, (S[j] + c) \div Base)

BAdd(X, Y, n) == Carry(Array([j \in 1..n |-> Digit(X, j) + Digit(Y, j)]), 1, 0)

\* X - Y for X >= Y
BSub(X, Y, n) == Carry(Array([j \in 1..n |-> Digit(X, j) - Digit(Y, j)]), 1, 0)

\* X * Y for X and Y of at most four digits, on eight digits.
BMul(X, Y) ==
    Carry(Array([k \in 1..8 |->
                     Digit(X, 1) * Digit(Y, k) + Digit(X, 2) * Digit(Y, k - 1)
                     + Digit(X, 3) * Digit(Y, k - 2)
                     + Digit(X, 4) * Digit(Y, k - 3)]),
          1, 0)

BLt(X, Y) ==
    LET n == IF Len(X) > Len(Y) THEN Len(X) ELSE Len(Y)
    IN  \E j \in 1..n :
            /\ Digit(X, j) < Digit(Y, j)
            /\ \A i \in (j + 1)..n : Digit(X, i) = Digit(Y, i)

NoDigits == <<0, 0, 0, 0>>

\* A double.  A finite one is (-1)^s * m * 2^q with the significand m
\* below 2^53 on four digits and q in -1074..971, m at least 2^52 unless
\* q = -1074 (the subnormal numbers and the two zeros).
Finite(s, m, q) == [k |-> "num", s |-> s, m |-> m, q |-> q]

Inf(s) == [k |-> "inf", s |-> s, m |-> NoDigits, q |-> 0]

NaN == [k |-> "nan", s |-> 0, m |-> NoDigits, q |-> 0]

Zero == Finite(0, NoDigits, -1074)

NegZero == Finite(1, NoDigits, -1074)

IsNaN(x) == x.k = "nan"

IsInf(x) == x.k = "inf"

IsZero(x) == x.k = "num" /\ x.m = NoDigits

\* The double nearest to (-1)^s * N * 2^E, a tie going to the even
\* significand (the rounding of IEEE 754); an infinity from 2^1024 on.
\* Read from the last line up: the length L of N gives the exponent q0 of
\* the result and the number sh of bits to drop; the bits kept, m0, go up
\* by one when the bits dropped are more than half a unit, or half a unit
\* and m0 is odd; a significand that reaches 2^53 is 2^52 one exponent up.
Round(s, N, E) ==
    LET Pack(m, q) == IF q > 971 THEN Inf(s) ELSE Finite(s, m, q)
        Over(m1, q0) ==
            IF m1[4] = 2048 THEN Pack(<<0, 0, 0, 1024>>, q0 + 1)
            ELSE Pack(m1, q0)
        Up(m0, sh) ==
            IF /\ BBit(N, sh - 1) = 1
               /\ (~LowBitsZero(N, sh - 1) \/ m0[1] % 2 = 1)
            THEN BAdd(m0, <<1>>, 4)
            ELSE m0
        Drop(q0, sh) ==
            IF sh <= 0 THEN Pack(BShl(N, -sh, 4), q0)
            ELSE Over(Up(BShr(N, sh, 4), sh), q0)
        At(q0) == Drop(q0, q0 - E)
        Of(L) ==
            IF L = 0 THEN Finite(s, NoDigits, -1074)
            ELSE At(IF E + L - 53 > -1074 THEN E + L - 53 ELSE -1074)
    IN  Of(BitLen(N))

\* float(n) of an integer
FromInt(n) ==
    LET a == IF n < 0 THEN -n ELSE n
    IN  Round(IF n < 0 THEN 1 ELSE 0,
              <<a % Base, (a \div Base) % Base, a \div (Base * Base)>>, 0)

One == FromInt(1)

\* x < y on doubles: false as soon as one side is NaN; -0.0 and 0.0 are
\* equal; -inf is below and +inf above every other number.
FLt(x, y) ==
    LET \* |a| < |b| for numbers and infinities
        MagLt(a, b) ==
            IF IsInf(a) THEN FALSE
            ELSE IF IsInf(b) THEN TRUE
            ELSE a.q < b.q \/ (a.q = b.q /\ BLt(a.m, b.m))
    IN  IF IsNaN(x) \/ IsNaN(y) THEN FALSE
        ELSE IF IsZero(x) /\ IsZero(y) THEN FALSE
        ELSE IF x.s # y.s THEN x.s = 1
        ELSE IF x.s = 0 THEN MagLt(x, y) ELSE MagLt(y, x)

FGt(x, y) == FLt(y, x)

FNeg(x) == IF IsNaN(x) THEN x ELSE [x EXCEPT !.s = 1 - x.s]

FAbs(x) == IF IsNaN(x) THEN x ELSE [x EXCEPT !.s = 0]

FMul(x, y) ==
    IF IsNaN(x) \/ IsNaN(y) THEN NaN
    ELSE IF IsInf(x) \/ IsInf(y)
         THEN (IF IsZero(x) \/ IsZero(y) THEN NaN ELSE Inf((x.s + y.s) % 2))
    ELSE Round((x.s + y.s) % 2, BMul(x.m, y.m), x.q + y.q)

\* The sum of two finite doubles, the first with the larger exponent.  A
\* second one more than 64 binary places below only tells which way the
\* rounding goes.
AddOrdered(x, y) ==
    LET Signed(X, Y) ==
            IF x.s = y.s THEN <<x.s, BAdd(X, Y, 9)>>
            ELSE IF BLt(X, Y) THEN <<y.s, BSub(Y, X, 9)>>
            ELSE IF BLt(Y, X) THEN <<x.s, BSub(X, Y, 9)>>
            ELSE <<0, <<>>>>
        Sum(t, d) == Round(t[1], t[2], x.q - d)
        Aligned(far, d) ==
            Sum(Signed(BShl(x.m, d, 9), IF far THEN <<1>> ELSE y.m), d)
        Near(far) == Aligned(far, IF far THEN 64 ELSE x.q - y.q)
    IN  Near(x.q - y.q > 64 /\ ~IsZero(y))

FAdd(x, y) ==
    IF IsNaN(x) \/ IsNaN(y) THEN NaN
    ELSE IF IsInf(x) /\ IsInf(y) THEN (IF x.s = y.s THEN x ELSE NaN)
    ELSE IF IsInf(x) THEN x
    ELSE IF IsInf(y) THEN y
    ELSE IF IsZero(x) /\ IsZero(y)
         THEN (IF x.s = 1 /\ y.s = 1 THEN NegZero ELSE Zero)
    ELSE IF IsZero(x) THEN y
    ELSE IF IsZero(y) THEN x
    ELSE IF x.q >= y.q THEN AddOrdered(x, y) ELSE AddOrdered(y, x)

\* R - d * D on five digits, for d * D <= R.
SubMul(R, D, d) ==
    Carry(Array([j \in 1..5 |-> R[j] - d * Digit(D, j)]), 1, 0)

\* One step of the long division by D (of 53 bits), for a remainder r
\* below D: <<digit, remainder>> with the digit floor(r * 2^14 / D).  The
\* digit is first taken from the 31 highest bits of r * 2^14 and the
\* 17 highest of D, which gives it or one less.
DivStep(r, D) ==
    LET Fix(d, r1) ==
            IF BLt(r1, D) THEN <<d, r1>> ELSE <<d + 1, SubMul(r1, D, 1)>>
        Try(d) == Fix(d, SubMul(<<0, r[1], r[2], r[3], r[4]>>, D, d))
    IN  Try(((r[2] \div 256) + r[3] * 64 + r[4] * 1048576)
            \div ((D[3] \div 256) + D[4] * 64 + 1))

\* n further steps of the long division by D: <<digits, remainder>>, the
\* digits Q found so far going up by n, the lowest first.
RECURSIVE LongDiv(_, _, _, _)
LongDiv(Q, r, D, n) ==
    LET Then(s) == LongDiv(<<s[1]>> \o Q, s[2], D, n - 1)
    IN  IF n = 0 THEN <<Q, r>> ELSE Then(DivStep(r, D))

\* x / y on doubles under numpy's default error state: 0/0 is NaN and
\* x/0 is an infinity, with a warning and no exception.
FDiv(x, y) ==
    IF IsNaN(x) \/ IsNaN(y) THEN NaN
    ELSE IF IsInf(x) THEN (IF IsInf(y) THEN NaN ELSE Inf((x.s + y.s) % 2))
    ELSE IF IsInf(y) THEN Finite((x.s + y.s) % 2, NoDigits, -1074)
    ELSE IF IsZero(y) THEN (IF IsZero(x) THEN NaN ELSE Inf((x.s + y.s) % 2))
    ELSE IF IsZero(x) THEN Finite((x.s + y.s) % 2, NoDigits, -1074)
    ELSE LET \* a quotient of 57 or 58 bits and one more bit, set when the
             \* division leaves a remainder
             Sticky(t, e) ==
                 Round((x.s + y.s) % 2,
                       BAdd(BShl(t[1], 1, 5),
                            <<IF t[2] = <<0, 0, 0, 0, 0>> THEN 0 ELSE 1>>, 5),
                       e)
             Quot(A, D) ==
                 IF BLt(A, D) THEN LongDiv(<<0>>, A \o <<0>>, D, 4)
                 ELSE LongDiv(<<1>>, BSub(A, D, 4) \o <<0>>, D, 4)
             \* both significands brought to 53 bits
             Norm(la, lb) ==
                 Sticky(Quot(BShl(x.m, la, 4), BShl(y.m, lb, 4)),
                        (x.q - la) - (y.q - lb) - 57)
         IN  Norm(53 - BitLen(x.m), 53 - BitLen(y.m))

\* The double a decimal literal stands for: the one nearest to n/d.
Rat(n, d) == FDiv(FromInt(n), FromInt(d))

\* int(x) of a finite number below 2^31 in size: truncation toward zero.
\* (int() of an infinity raises OverflowError and of a NaN ValueError; no
\* fraction of the inputs leads there.)
PyInt(x) ==
    LET Signed(v) == IF x.s = 1 THEN -v ELSE v
        Value(t) == Signed(t[1] + t[2] * Base + t[3] * Base * Base)
    IN  Value(IF x.q >= 0 THEN BShl(x.m, x.q, 3) ELSE BShr(x.m, -x.q, 3))

\* The decimal literals of the notebook and of the inputs.
Half == Rat(1, 2)
NegPoint8 == Rat(-8, 10)
NegPoint2 == Rat(-2, 10)
Point1 == Rat(1, 10)
Point2 == Rat(2, 10)
Point3 == Rat(3, 10)
Point34 == Rat(34, 100)
JustOverHalf == Rat(500001, 1000000)
Point7 == Rat(7, 10)
\* 0.24999999999999997, the double next below 0.25
QuarterBelow ==
    Finite(0, <<Base - 1, Base - 1, Base - 1, 2047>>, -55)

----------------------------------------------------------------------------
(* Arrays *)

ArrNeg(a) == Array([i \in 1..Len(a) |-> FNeg(a[i])])

ArrAbs(a) == Array([i \in 1..Len(a) |-> FAbs(a[i])])

\* a[b == 1] in place of a * b
ArrMul_Select(a, b) ==
    LET on == {i \in 1..Len(a) : b[i] = One}
    IN  [j \in 1..Cardinality(on) |->
            a[CHOOSE i \in on : Cardinality({m \in on : m < i}) = j - 1]]

ArrMul(a, b) == Array([i \in 1..Len(a) |-> FMul(a[i], b[i])])

ArrDivScalar(a, m) == Array([i \in 1..Len(a) |-> FDiv(a[i], m)])

\* acc + a[i] + a[i+1] + ..., added from left to right, each addition
\* rounded: the order in which numpy adds an array of fewer than 8 elements.
RECURSIVE ArrSumFrom(_, _, _)
ArrSumFrom(a, i, acc) ==
    IF i > Len(a) THEN acc ELSE ArrSumFrom(a, i + 1, FAdd(acc, a[i]))

\* attributions.sum(); the sum of the empty array is 0.0.  sum_identity is
\* the value np.add.reduce starts from: 0.0 before NumPy 1.25 and -0.0
\* since, which keeps the sign of a sum of negative zeros.
ArrSum(a) == IF Len(a) = 0 THEN Zero ELSE ArrSumFrom(a, 1, sum_identity)

\* Python's max(x, y): y only when y > x.
PyMax2(x, y) == IF FGt(y, x) THEN y ELSE x

RECURSIVE PyMaxFrom(_, _, _)
PyMaxFrom(a, i, cur) ==
    IF i > Len(a) THEN cur ELSE PyMaxFrom(a, i + 1, PyMax2(cur, a[i]))

\* Python's max(a) of a non-empty array (the empty one raises ValueError).
PyMax(a) == PyMaxFrom(a, 2, a[1])

----------------------------------------------------------------------------
(* visualization_record *)

\* max(max(attributions), max(-attributions))
MaxAbsDivisor_OnlyMax(a) == PyMax(a)

MaxAbsDivisor_OnlyNegMax(a) == PyMax(ArrNeg(a))

MaxAbsDivisor(a) == PyMax2(PyMax(a), PyMax(ArrNeg(a)))

\* attributions / max(max(attributions), max(-attributions))
Normalized_ByAbsSum(a) == ArrDivScalar(a, ArrSum(ArrAbs(a)))

Normalized(a) == ArrDivScalar(a, MaxAbsDivisor(a))

\* if normalize: ... raises ValueError on the empty array (max of nothing).
NormalizeRaises(a, norm) == norm /\ Len(a) = 0

AfterNormalize(a, norm) == IF norm THEN Normalized(a) ELSE a

\* max_frac_to_show is not None and max_frac_to_show < 1
FilterApplies_NotOne(f) == f.none \/ f.v # One

FilterApplies(f) == ~f.none /\ FLt(f.v, One)

\* int(max_frac_to_show * attributions.shape[0])
NumShow(f, n) == PyInt(FMul(f.v, FromInt(n)))

\* sal: the ranking vector
Sal_NeverAbs(a, p, match) == IF FLt(p, Half) THEN ArrNeg(a) ELSE a

\* negates at exactly 0.5 too
Sal_NegateAtHalf(a, p, match) ==
    LET s1 == IF ~FGt(p, Half) THEN ArrNeg(a) ELSE a
    IN  IF ~match THEN ArrAbs(s1) ELSE s1

\* takes the absolute value before the negation
Sal_AbsBeforeNegate(a, p, match) ==
    LET s1 == IF ~match THEN ArrAbs(a) ELSE a
    IN  IF FLt(p, Half) THEN ArrNeg(s1) ELSE s1

Sal(a, p, match) ==
    LET s1 == IF FLt(p, Half) THEN ArrNeg(a) ELSE a
    IN  IF ~match THEN ArrAbs(s1) ELSE s1

\* The order argsort sorts doubles by: NaN after every number.
SortLt(x, y) ==
    IF IsNaN(x) THEN FALSE ELSE IF IsNaN(y) THEN TRUE ELSE FLt(x, y)

Perms(n) ==
    {p \in [1..n -> 1..n] : \A i, j \in 1..n : i # j => p[i] # p[j]}

\* np.argsort(key) with the default kind ("quicksort", not stable): every
\* ordering of the indices that puts the keys in ascending order; equal
\* keys may come out in any order.
Argsorts_Descending(key) ==
    {p \in Perms(Len(key)) :
        \A i, j \in 1..Len(key) : i < j => ~SortLt(key[p[i]], key[p[j]])}

Argsorts(key) ==
    {p \in Perms(Len(key)) :
        \A i, j \in 1..Len(key) : i < j => ~SortLt(key[p[j]], key[p[i]])}

\* np.argsort is a function of the array it is given: an array it has
\* sorted before comes out in the same order again.
Argsort(key) ==
    {p \in Argsorts(key) : \A m \in argsort_memo : m[1] = key => m[2] = p}

\* p[:k]
SliceTo(p, k) ==
    LET n   == Len(p)
        end == IF k < 0 THEN (IF n + k < 0 THEN 0 ELSE n + k)
               ELSE (IF k > n THEN n ELSE k)
    IN  [i \in 1..end |-> p[i]]

\* mask = np.zeros_like(attributions); mask[top_idxs] = 1
Mask(n, top) ==
    Array([i \in 1..n |->
              IF \E j \in 1..Len(top) : top[j] = i THEN One ELSE Zero])

\* int(pred > 0.5)
PredClass_AtLeastHalf(p) == IF ~FLt(p, Half) THEN 1 ELSE 0

PredClass(p) == IF FGt(p, Half) THEN 1 ELSE 0

\* visualization.VisualizationDataRecord(...)
VisualizationDataRecord(wa, p, pc_, tl, ac, as, raw, conv) ==
    [word_attributions |-> wa, pred_prob |-> p, pred_class |-> pc_,
     true_class |-> tl, attr_class |-> ac, attr_score |-> as,
     raw_input_ids |-> raw, convergence_score |-> conv]

Build_SumOfInput(attrs) ==
    VisualizationDataRecord(attrs, pred, PredClass(pred), true_label,
                            FGt(ArrSum(attributions), Zero),
                            ArrSum(attributions), text, delta)

Build(attrs) ==
    VisualizationDataRecord(attrs, pred, PredClass(pred), true_label,
                            FGt(ArrSum(attrs), Zero), ArrSum(attrs),
                            text, delta)

----------------------------------------------------------------------------
(* Inputs *)

AttrVals == {NegPoint8, NegPoint2, Zero, Point1, Point2}

PredVals == {Point3, Half, JustOverHalf, Point7}

NoFrac == [none |-> TRUE, v |-> Zero]

Fracs ==
    {NoFrac}
    \cup {[none |-> FALSE, v |-> f] : f \in {Zero, Point34, Half, One}}

\* Arrays with two attributions next to each other: dividing 0.25 and
\* 0.24999999999999997 by 0.7 gives the same double.
CloseVectors ==
    LET v == <<QuarterBelow, Rat(1, 4), Point7>>
    IN  {[i \in 1..3 |-> v[p[i]]] : p \in Perms(3)}

Vectors == UNION {[1..n -> AttrVals] : n \in 0..MaxLen} \cup CloseVectors

Tokens(n) == [i \in 1..n |-> i]

\* No second call is made.
NoSecondCall ==
    /\ given = <<>>
    /\ first = <<>>

\* create_target_column is not called.
NoTargetColumn ==
    /\ df = <<>>
    /\ min_positive_score = 0
    /\ max_negative_score = 0
    /\ df_target = <<>>

\* The fairness notebook is not run.
NoFairness ==
    /\ adult_data = <<>>
    /\ adult_test = <<>>
    /\ training_data = <<>>
    /\ testing_data = <<>>
    /\ models = {}
    /\ endpoints = {}
    /\ endpoint_configs = {}
    /\ events = <<>>
    /\ fpc = "off"

\* The function is called on its own, outside the cells of the notebook.
NoNotebook ==
    /\ df_val = <<>>
    /\ df_test_clarify = <<>>
    /\ file_lines = <<>>
    /\ shap_out = <<>>
    /\ attributions_dataset = <<>>
    /\ tokens_dataset = <<>>
    /\ preds = <<>>
    /\ labels = <<>>
    /\ vis = <<>>
    /\ visited = <<>>
    /\ cur_idx = 0
    /\ bpc = "direct"

Init ==
    /\ attributions \in Vectors
    /\ text = Tokens(Len(attributions))
    /\ pred \in PredVals
    /\ delta = Zero
    /\ true_label \in {0, 1}
    /\ normalize \in BOOLEAN
    /\ max_frac_to_show \in Fracs
    /\ match_to_pred \in BOOLEAN
    /\ num_show = 0
    /\ top_idxs = <<>>
    /\ record = <<>>
    /\ error = ""
    /\ pc = "call"
    /\ argsort_memo = {}
    /\ sum_identity \in {Zero, NegZero}
    /\ calls = <<>>
    /\ NoNotebook
    /\ NoSecondCall /\ NoTargetColumn /\ NoFairness

----------------------------------------------------------------------------
(* Actions *)

\* The call ends in the ValueError of max() on an empty array.
Raise ==
    /\ pc = "call"
    /\ NormalizeRaises(attributions, normalize)
    /\ pc' = "raised"
    /\ error' = "ValueError"
    /\ UNCHANGED <<xvars, calls, args, num_show, top_idxs, record, argsort_memo, nbvars>>

\* The call returns without entering the salience branch.
ReturnUnfiltered ==
    /\ pc = "call"
    /\ ~NormalizeRaises(attributions, normalize)
    /\ ~FilterApplies(max_frac_to_show)
    /\ record' = Build(AfterNormalize(attributions, normalize))
    /\ pc' = "returned"
    /\ UNCHANGED <<xvars, calls, args, num_show, top_idxs, error, argsort_memo, nbvars>>

\* The salience branch, once for every order argsort can return: num_show,
\* the ranking key -sal, the permutation, top_idxs and the masked array.
SalienceBranch ==
    LET a   == AfterNormalize(attributions, normalize)
        k   == NumShow(max_frac_to_show, Len(a))
        sal == Sal(a, pred, match_to_pred)
        key == ArrNeg(sal)
    IN  {LET top == SliceTo(p, k)
         IN  [num_show |-> k, key |-> key, p |-> p, top_idxs |-> top,
              attributions |-> ArrMul(a, Mask(Len(a), top))] :
            p \in Argsort(key)}

\* The salience branch with the array operations made in place (/=, *=):
\* they write into the array of the caller.
ReturnFiltered_InPlace ==
    /\ pc = "call"
    /\ ~NormalizeRaises(attributions, normalize)
    /\ FilterApplies(max_frac_to_show)
    /\ \E b \in SalienceBranch :
          /\ num_show' = b.num_show
          /\ top_idxs' = b.top_idxs
          /\ attributions' = b.attributions
          /\ record' = Build(b.attributions)
          /\ argsort_memo' = argsort_memo \cup {<<b.key, b.p>>}
    /\ pc' = "returned"
    /\ UNCHANGED <<xvars, calls, text, pred, delta, true_label, normalize,
                   max_frac_to_show, match_to_pred, error, nbvars>>

\* The call returns through the salience branch.
ReturnFiltered ==
    /\ pc = "call"
    /\ ~NormalizeRaises(attributions, normalize)
    /\ FilterApplies(max_frac_to_show)
    /\ \E b \in SalienceBranch :
          /\ num_show' = b.num_show
          /\ top_idxs' = b.top_idxs
          /\ record' = Build(b.attributions)
          /\ argsort_memo' = argsort_memo \cup {<<b.key, b.p>>}
    /\ pc' = "returned"
    /\ UNCHANGED <<xvars, calls, args, error, nbvars>>

Next == Raise \/ ReturnUnfiltered \/ ReturnFiltered

Spec == Init /\ [][Next]_vars

----------------------------------------------------------------------------
(* The notebook around visualization_record: the rows to explain are       *)
(* sampled, the explainability job writes out.jsonl, its lines are parsed  *)
(* into arrays, the endpoint is asked for predictions and the loop builds  *)
(* one record per instance.                                                *)

\* num_examples (10 in the notebook)
NumExamples == 2

\* A row of the reviews data: the review (named by its id) and its
\* Sentiment.
Row(id) == [id |-> id, Sentiment |-> id % 2]

\* The rows of df_test with more than 500 characters.
DfTestLong == [i \in 1..NumExamples + 1 |-> Row(i)]

\* The rows df_val can hold: fewer than num_examples, or enough of them.
DfVals ==
    {[i \in 1..m |-> Row(NumExamples + 1 + i)] :
        m \in {NumExamples - 1, NumExamples + 1}}

\* The score of the endpoint for a review.
Score(id) ==
    LET vals == <<Point3, Half, JustOverHalf, Point7>>
    IN  vals[((id - 1) % Len(vals)) + 1]

\* An attribution entry of a record of out.jsonl, with the keys it holds.
Entry(v, tok) ==
    [keys |-> {"attribution", "description"},
     attribution |-> <<v>>, partial_text |-> tok]

EntryNoAttribution(tok) ==
    [keys |-> {"description"}, attribution |-> <<>>, partial_text |-> tok]

EntryNoDescription(v) ==
    [keys |-> {"attribution"}, attribution |-> <<v>>, partial_text |-> 0]

\* The attribution lists the job may write for an instance.
EntryLists ==
    { <<>>,
      <<Entry(Point2, 31), Entry(NegPoint8, 12), Entry(Point1, 23)>>,
      <<Entry(Zero, 15), Entry(Zero, 14)>>,
      <<Entry(Point1, 41), EntryNoAttribution(42)>>,
      <<EntryNoDescription(NegPoint2), Entry(Point2, 52)>> }

\* A line of out.jsonl is the empty string, the JSON text of an explanation
\* record, the JSON text of another value, or a text that is not JSON.
\* Of a value that is no explanation record the model keeps the exception
\* the lookup expl["explanations"][0]["attributions"] raises on it.
EmptyLine ==
    [kind |-> "empty", row |-> 0, attributions |-> <<>>, raises |-> ""]

\* The line of out.jsonl for a row: expl["explanations"][0]["attributions"]
Line(row, entries) ==
    [kind |-> "record", row |-> row.id, attributions |-> entries,
     raises |-> ""]

\* A line holding a JSON value without the attributions of an explanation:
\* TypeError for a number, a string, a list or null, KeyError for an object
\* without the key, IndexError for an empty list of explanations.
JsonLine(exc) ==
    [kind |-> "json", row |-> 0, attributions |-> <<>>, raises |-> exc]

\* A line that is not JSON.
TextLine == [kind |-> "text", row |-> 0, attributions |-> <<>>, raises |-> ""]

\* df.sample(n): n distinct rows, in any order.
Samples(rows, n) ==
    {[i \in 1..n |-> rows[f[i]]] :
        f \in {g \in [1..n -> 1..Len(rows)] :
                  \A i, j \in 1..n : i # j => g[i] # g[j]}}


\* The notebook before its cells have run.  normalize, max_frac_to_show and
\* match_to_pred are names the loop cell binds; until then they hold no value
\* a cell reads.
InitNotebook ==
    /\ attributions = <<>>
    /\ text = <<>>
    /\ pred = Zero
    /\ delta = Zero
    /\ true_label = 0
    /\ normalize = FALSE
    /\ max_frac_to_show = NoFrac
    /\ match_to_pred = FALSE
    /\ num_show = 0
    /\ top_idxs = <<>>
    /\ record = <<>>
    /\ error = ""
    /\ pc = "idle"
    /\ df_val \in DfVals
    /\ df_test_clarify = <<>>
    /\ file_lines = <<>>
    /\ shap_out = <<>>
    /\ attributions_dataset = <<>>
    /\ tokens_dataset = <<>>
    /\ preds = <<>>
    /\ labels = <<>>
    /\ vis = <<>>
    /\ visited = <<>>
    /\ cur_idx = 0
    /\ bpc = "sample"
    /\ argsort_memo = {}
    /\ sum_identity \in {Zero, NegZero}
    /\ calls = <<>>
    /\ NoSecondCall /\ NoTargetColumn /\ NoFairness

\* df_test_clarify = df_test[df_test["len"] > 500].sample(n=num_examples)
Sample ==
    /\ bpc = "sample"
    /\ df_test_clarify' \in Samples(DfTestLong, NumExamples)
    /\ bpc' = "explain"
    /\ UNCHANGED <<xvars, callvars, df_val, file_lines, shap_out,
                   attributions_dataset, tokens_dataset, preds, labels, vis,
                   visited, cur_idx>>

\* clarify_processor.run_explainability: out.jsonl holds the explanation
\* of one instance per line, in the order of the rows, and ends with a
\* newline.
RunExplainability ==
    /\ bpc = "explain"
    /\ \E e \in [1..Len(df_test_clarify) -> EntryLists] :
          file_lines' =
              [i \in 1..Len(df_test_clarify) + 1 |->
                  IF i <= Len(df_test_clarify)
                  THEN Line(df_test_clarify[i], e[i]) ELSE EmptyLine]
    /\ bpc' = "load"
    /\ UNCHANGED <<xvars, callvars, df_val, df_test_clarify, shap_out,
                   attributions_dataset, tokens_dataset, preds, labels, vis,
                   visited, cur_idx>>

\* if line: (a string is true unless it is empty)
IsNotEmpty(line) == line.kind # "empty"

\* json.loads(line) raises JSONDecodeError on a line that is not JSON.
JsonLoadsRaises(line) == line.kind = "text"

\* for line in file.split("\n"): if line: shap_out.append(json.loads(line))
\* The loop stops at the first line json.loads cannot decode, with the
\* records before it appended.
LoadExplanations ==
    /\ bpc = "load"
    /\ LET bad == {i \in 1..Len(file_lines) : JsonLoadsRaises(file_lines[i])}
       IN  IF bad = {}
           THEN /\ shap_out' = SelectSeq(file_lines, IsNotEmpty)
                /\ bpc' = "parse"
                /\ UNCHANGED error
           ELSE LET stop == CHOOSE i \in bad : \A k \in bad : i <= k
                IN  /\ shap_out' = SelectSeq(SubSeq(file_lines, 1, stop - 1),
                                             IsNotEmpty)
                    /\ error' = "JSONDecodeError"
                    /\ bpc' = "failed"
    /\ UNCHANGED <<xvars, calls, args, num_show, top_idxs, record, pc, argsort_memo,
                   df_val, df_test_clarify, file_lines,
                   attributions_dataset, tokens_dataset, preds, labels, vis,
                   visited, cur_idx>>

\* np.array([attr["attribution"][0] for attr in ...["attributions"]])
AttributionsOf_Reversed(expl) ==
    [j \in 1..Len(expl.attributions) |->
        expl.attributions[Len(expl.attributions) + 1 - j].attribution[1]]

AttributionsOf(expl) ==
    [j \in 1..Len(expl.attributions) |-> expl.attributions[j].attribution[1]]

\* np.array([attr["description"]["partial_text"] for attr in ...])
TokensOf(expl) ==
    [j \in 1..Len(expl.attributions) |-> expl.attributions[j].partial_text]

\* A record one of whose entries lacks the key: the lookup raises KeyError.
LacksKey(out, key) ==
    \E i \in 1..Len(out) : \E j \in 1..Len(out[i].attributions) :
        key \notin out[i].attributions[j].keys

\* The elements of shap_out the first comprehension fails on: a value that
\* is no explanation record, or a record with an entry without
\* "attribution".
FailsAttributions(out) ==
    {i \in 1..Len(out) :
        \/ out[i].kind # "record"
        \/ \E j \in 1..Len(out[i].attributions) :
              "attribution" \notin out[i].attributions[j].keys}

\* The exception of the first comprehension: that of the first element it
\* fails on.
AttributionsError(out) ==
    LET i == CHOOSE k \in FailsAttributions(out) :
                 \A m \in FailsAttributions(out) : k <= m
    IN  IF out[i].kind # "record" THEN out[i].raises ELSE "KeyError"

\* The two comprehensions over shap_out, when no lookup fails.
ParseDatasets ==
    /\ bpc = "parse"
    /\ FailsAttributions(shap_out) = {}
    /\ ~LacksKey(shap_out, "description")
    /\ attributions_dataset' =
          [i \in 1..Len(shap_out) |-> AttributionsOf(shap_out[i])]
    /\ tokens_dataset' = [i \in 1..Len(shap_out) |-> TokensOf(shap_out[i])]
    /\ bpc' = "predict"
    /\ UNCHANGED <<xvars, callvars, df_val, df_test_clarify, file_lines, shap_out,
                   preds, labels, vis, visited, cur_idx>>

\* The first comprehension raises: nothing is assigned.
ParseAttributionsRaises ==
    /\ bpc = "parse"
    /\ FailsAttributions(shap_out) # {}
    /\ error' = AttributionsError(shap_out)
    /\ bpc' = "failed"
    /\ UNCHANGED <<xvars, calls, args, num_show, top_idxs, record, pc, argsort_memo, df_val,
                   df_test_clarify, file_lines, shap_out,
                   attributions_dataset, tokens_dataset, preds, labels, vis,
                   visited, cur_idx>>

\* The second comprehension raises KeyError: attributions_dataset is
\* assigned, tokens_dataset is not.
ParseTokensKeyError ==
    /\ bpc = "parse"
    /\ FailsAttributions(shap_out) = {}
    /\ LacksKey(shap_out, "description")
    /\ attributions_dataset' =
          [i \in 1..Len(shap_out) |-> AttributionsOf(shap_out[i])]
    /\ error' = "KeyError"
    /\ bpc' = "failed"
    /\ UNCHANGED <<xvars, calls, args, num_show, top_idxs, record, pc, argsort_memo, df_val,
                   df_test_clarify, file_lines, shap_out, tokens_dataset,
                   preds, labels, vis, visited, cur_idx>>

\* predictor.predict([t for t in df_test_clarify.values]): one row of one
\* score per instance, in the order of the rows.
PredsOf_Unsampled(rows) ==
    [i \in 1..Len(rows) |-> <<Score(DfTestLong[i].id)>>]

PredsOf(rows) == [i \in 1..Len(rows) |-> <<Score(rows[i].id)>>]

Predict ==
    /\ bpc = "predict"
    /\ preds' = PredsOf(df_test_clarify)
    /\ bpc' = "setup"
    /\ UNCHANGED <<xvars, callvars, df_val, df_test_clarify, file_lines, shap_out,
                   attributions_dataset, tokens_dataset, labels, vis,
                   visited, cur_idx>>

\* normalize = True; max_frac_to_show = 1; match_to_pred = False
\* labels = test_dataset["Sentiment"][:num_examples]; vis = []
\* The cell as the notebook has it.  test_dataset is built from df_val, and
\* the slice takes the rows there are when they are fewer than num_examples.
LoopSetup ==
    /\ bpc = "setup"
    /\ normalize' = TRUE
    /\ max_frac_to_show' = [none |-> FALSE, v |-> One]
    /\ match_to_pred' = FALSE
    /\ labels' =
          [i \in 1..(IF NumExamples < Len(df_val) THEN NumExamples
                     ELSE Len(df_val)) |-> df_val[i].Sentiment]
    /\ vis' = <<>>
    /\ visited' = <<>>
    /\ bpc' = "loop"
    /\ UNCHANGED <<xvars, attributions, text, pred, delta, true_label, num_show,
                   top_idxs, record, error, pc, argsort_memo, calls, df_val,
                   df_test_clarify, file_lines, shap_out,
                   attributions_dataset, tokens_dataset, preds, cur_idx>>

\* "You can customize the following display settings": the same cell with
\* the three literals of its first lines edited, the rest as it is.
LoopSetupCustomized ==
    /\ bpc = "setup"
    /\ normalize' \in BOOLEAN
    /\ max_frac_to_show' \in Fracs
    /\ match_to_pred' \in BOOLEAN
    /\ labels' =
          [i \in 1..(IF NumExamples < Len(df_val) THEN NumExamples
                     ELSE Len(df_val)) |-> df_val[i].Sentiment]
    /\ vis' = <<>>
    /\ visited' = <<>>
    /\ bpc' = "loop"
    /\ UNCHANGED <<xvars, attributions, text, pred, delta, true_label, num_show,
                   top_idxs, record, error, pc, argsort_memo, calls, df_val,
                   df_test_clarify, file_lines, shap_out,
                   attributions_dataset, tokens_dataset, preds, cur_idx>>

\* zip(...) stops at the shortest of its arguments.
ZipLen ==
    LET lens == {Len(attributions_dataset), Len(tokens_dataset),
                 Len(preds), Len(labels)}
    IN  CHOOSE n \in lens : \A m \in lens : n <= m

\* The arguments of the call for instance idx:
\* visualization_record(attr, token, float(pred[0]), 0.0, label, ...)
InstanceArgs(idx) ==
    [attr |-> attributions_dataset[idx], token |-> tokens_dataset[idx],
     pred |-> preds[idx][1], label |-> labels[idx]]

\* The loop enters the call for instance idx.
BindInstance(idx) ==
    /\ bpc = "loop"
    /\ pc = "idle"
    /\ idx \in 1..ZipLen
    /\ attributions' = InstanceArgs(idx).attr
    /\ text' = InstanceArgs(idx).token
    /\ pred' = InstanceArgs(idx).pred
    /\ delta' = Zero
    /\ true_label' = InstanceArgs(idx).label
    /\ num_show' = 0
    /\ top_idxs' = <<>>
    /\ cur_idx' = idx
    /\ pc' = "call"
    /\ UNCHANGED <<xvars, calls, normalize, max_frac_to_show, match_to_pred, record, error, argsort_memo,
                   df_val, df_test_clarify, file_lines, shap_out,
                   attributions_dataset, tokens_dataset, preds, labels, vis,
                   visited, bpc>>

\* for attr, token, pred, label in zip(...): the next instance
LoopBind == BindInstance(Len(vis) + 1)

\* vis.append(visualization_record(...))
LoopAppend ==
    /\ bpc = "loop"
    /\ pc = "returned"
    /\ vis' = Append(vis, record)
    /\ visited' = Append(visited, cur_idx)
    /\ pc' = "idle"
    /\ UNCHANGED <<xvars, calls, args, num_show, top_idxs, record, error, argsort_memo, df_val,
                   df_test_clarify, file_lines, shap_out,
                   attributions_dataset, tokens_dataset, preds, labels,
                   cur_idx, bpc>>

\* The exception of the call leaves the loop and the cell.
LoopRaise ==
    /\ bpc = "loop"
    /\ pc = "raised"
    /\ bpc' = "failed"
    /\ UNCHANGED <<xvars, callvars, df_val, df_test_clarify, file_lines, shap_out,
                   attributions_dataset, tokens_dataset, preds, labels, vis,
                   visited, cur_idx>>

\* zip is exhausted.
LoopEnd ==
    /\ bpc = "loop"
    /\ pc = "idle"
    /\ Len(vis) = ZipLen
    /\ bpc' = "done"
    /\ UNCHANGED <<xvars, callvars, df_val, df_test_clarify, file_lines, shap_out,
                   attributions_dataset, tokens_dataset, preds, labels, vis,
                   visited, cur_idx>>

NextNotebook ==
    \/ Sample \/ RunExplainability \/ LoadExplanations
    \/ ParseDatasets \/ ParseAttributionsRaises \/ ParseTokensKeyError
    \/ Predict \/ LoopSetup \/ LoopSetupCustomized \/ LoopBind
    \/ Raise \/ ReturnUnfiltered \/ ReturnFiltered
    \/ LoopAppend \/ LoopRaise \/ LoopEnd

SpecNotebook == InitNotebook /\ [][NextNotebook]_vars

\* Calls of visualization_record made side by side on the arrays the cells
\* have parsed, one for an instance, entered in any order once the loop of
\* the notebook has come to its end or stopped on an exception.  A call has
\* its parameters and locals to itself (they are names of its own frame),
\* and runs one statement at a time, the statements of the calls in
\* progress coming in any order.  Of a call the model also keeps the calls
\* that were in progress when it was entered.
EnterCall(idx) ==
    /\ bpc = "done" \/ (bpc = "failed" /\ pc = "raised")
    /\ idx \in 1..ZipLen
    /\ idx \notin DOMAIN calls
    /\ calls' = calls @@
          (idx :> [attributions |-> InstanceArgs(idx).attr,
                   text |-> InstanceArgs(idx).token,
                   pred |-> InstanceArgs(idx).pred,
                   delta |-> Zero,
                   true_label |-> InstanceArgs(idx).label,
                   num_show |-> 0, sal |-> <<>>, top_idxs |-> <<>>,
                   record |-> <<>>, error |-> "",
                   entered_during |->
                       {j \in DOMAIN calls :
                           calls[j].at \notin {"returned", "raised"}},
                   at |-> "normalize"])
    /\ UNCHANGED <<xvars, nbvars, args, num_show, top_idxs, record, error,
                   pc, argsort_memo>>

\* if normalize: attributions = attributions / max(max(...), max(-...))
CallNormalize(idx) ==
    /\ idx \in DOMAIN calls
    /\ calls[idx].at = "normalize"
    /\ calls' =
          IF NormalizeRaises(calls[idx].attributions, normalize)
          THEN [calls EXCEPT ![idx].error = "ValueError",
                             ![idx].at = "raised"]
          ELSE [calls EXCEPT
                   ![idx].attributions =
                       AfterNormalize(calls[idx].attributions, normalize),
                   ![idx].at = "num_show"]
    /\ UNCHANGED <<xvars, nbvars, args, num_show, top_idxs, record, error,
                   pc, argsort_memo>>

\* if max_frac_to_show is not None and max_frac_to_show < 1:
\*     num_show = int(max_frac_to_show * attributions.shape[0])
CallNumShow(idx) ==
    /\ idx \in DOMAIN calls
    /\ calls[idx].at = "num_show"
    /\ calls' =
          IF FilterApplies(max_frac_to_show)
          THEN [calls EXCEPT
                   ![idx].num_show =
                       NumShow(max_frac_to_show, Len(calls[idx].attributions)),
                   ![idx].at = "sal"]
          ELSE [calls EXCEPT ![idx].at = "return"]
    /\ UNCHANGED <<xvars, nbvars, args, num_show, top_idxs, record, error,
                   pc, argsort_memo>>

\* The call reads the prediction of the last call of the loop (the name
\* pred of the cell) in place of its own parameter.
CallSal_PredOfTheCell(idx) ==
    /\ idx \in DOMAIN calls
    /\ calls[idx].at = "sal"
    /\ calls' =
          [calls EXCEPT
              ![idx].sal = Sal(calls[idx].attributions, pred, match_to_pred),
              ![idx].at = "argsort"]
    /\ UNCHANGED <<xvars, nbvars, args, num_show, top_idxs, record, error,
                   pc, argsort_memo>>

\* sal = attributions; if pred < 0.5: sal = -sal;
\* if not match_to_pred: sal = np.abs(sal)
CallSal(idx) ==
    /\ idx \in DOMAIN calls
    /\ calls[idx].at = "sal"
    /\ calls' =
          [calls EXCEPT
              ![idx].sal = Sal(calls[idx].attributions, calls[idx].pred,
                               match_to_pred),
              ![idx].at = "argsort"]
    /\ UNCHANGED <<xvars, nbvars, args, num_show, top_idxs, record, error,
                   pc, argsort_memo>>

\* top_idxs = np.argsort(-sal)[:num_show]
CallTopIdxs(idx) ==
    /\ idx \in DOMAIN calls
    /\ calls[idx].at = "argsort"
    /\ \E p \in Argsort(ArrNeg(calls[idx].sal)) :
          /\ calls' =
                [calls EXCEPT
                    ![idx].top_idxs = SliceTo(p, calls[idx].num_show),
                    ![idx].at = "mask"]
          /\ argsort_memo' = argsort_memo \cup {<<ArrNeg(calls[idx].sal), p>>}
    /\ UNCHANGED <<xvars, nbvars, args, num_show, top_idxs, record, error,
                   pc>>

\* mask = np.zeros_like(attributions); mask[top_idxs] = 1
\* attributions = attributions * mask
CallMask(idx) ==
    /\ idx \in DOMAIN calls
    /\ calls[idx].at = "mask"
    /\ calls' =
          [calls EXCEPT
              ![idx].attributions =
                  ArrMul(calls[idx].attributions,
                         Mask(Len(calls[idx].attributions),
                              calls[idx].top_idxs)),
              ![idx].at = "return"]
    /\ UNCHANGED <<xvars, nbvars, args, num_show, top_idxs, record, error,
                   pc, argsort_memo>>

\* return visualization.VisualizationDataRecord(...)
CallReturn(idx) ==
    /\ idx \in DOMAIN calls
    /\ calls[idx].at = "return"
    /\ calls' =
          [calls EXCEPT
              ![idx].record =
                  VisualizationDataRecord(
                      calls[idx].attributions, calls[idx].pred,
                      PredClass(calls[idx].pred), calls[idx].true_label,
                      FGt(ArrSum(calls[idx].attributions), Zero),
                      ArrSum(calls[idx].attributions), calls[idx].text,
                      calls[idx].delta),
              ![idx].at = "returned"]
    /\ UNCHANGED <<xvars, nbvars, args, num_show, top_idxs, record, error,
                   pc, argsort_memo>>

NextConcurrent ==
    \/ NextNotebook
    \/ \E idx \in 1..NumExamples :
          \/ EnterCall(idx) \/ CallNormalize(idx) \/ CallNumShow(idx)
          \/ CallSal(idx) \/ CallTopIdxs(idx) \/ CallMask(idx)
          \/ CallReturn(idx)

SpecConcurrent == InitNotebook /\ [][NextConcurrent]_vars

\* visualization_record called with a token list of any length.
InitDirect ==
    /\ attributions \in Vectors
    /\ text \in {Tokens(n) : n \in 0..MaxLen}
    /\ pred \in PredVals
    /\ delta = Zero
    /\ true_label \in {0, 1}
    /\ normalize \in BOOLEAN
    /\ max_frac_to_show \in Fracs
    /\ match_to_pred \in BOOLEAN
    /\ num_show = 0
    /\ top_idxs = <<>>
    /\ record = <<>>
    /\ error = ""
    /\ pc = "call"
    /\ argsort_memo = {}
    /\ sum_identity \in {Zero, NegZero}
    /\ calls = <<>>
    /\ NoNotebook
    /\ NoSecondCall /\ NoTargetColumn /\ NoFairness

SpecDirect == InitDirect /\ [][Next]_vars

----------------------------------------------------------------------------
(* A caller that calls visualization_record on its arrays and then calls   *)
(* it again on the same arrays, with the same arguments or with another   *)
(* prediction or another normalize.                                        *)

\* The vectors of the caller.
AgainVectors ==
    UNION {[1..n -> {NegPoint8, NegPoint2, Zero, Point2}] : n \in 0..MaxLen}
    \cup CloseVectors

InitAgain ==
    /\ attributions \in AgainVectors
    /\ text = Tokens(Len(attributions))
    /\ pred \in {Point3, Half}
    /\ delta = Zero
    /\ true_label = 1
    /\ normalize \in BOOLEAN
    /\ max_frac_to_show \in
          {NoFrac, [none |-> FALSE, v |-> Point34], [none |-> FALSE, v |-> Half]}
    /\ match_to_pred \in BOOLEAN
    /\ num_show = 0
    /\ top_idxs = <<>>
    /\ record = <<>>
    /\ error = ""
    /\ pc = "call"
    /\ argsort_memo = {}
    /\ sum_identity \in {Zero, NegZero}
    /\ calls = <<>>
    /\ NoNotebook
    /\ given = [attributions |-> attributions, text |-> text, pred |-> pred,
                true_label |-> true_label]
    /\ first = <<>>
    /\ NoTargetColumn /\ NoFairness

\* The caller keeps the record and calls again, passing the same arrays.
CallAgain ==
    /\ given # <<>>
    /\ first = <<>>
    /\ pc = "returned"
    /\ first' = [attributions |-> attributions, text |-> text, pred |-> pred,
                 true_label |-> true_label, normalize |-> normalize,
                 top_idxs |-> top_idxs, record |-> record]
    /\ pred' \in PredVals
    /\ normalize' \in BOOLEAN
    /\ pred' = pred \/ normalize' = normalize
    /\ num_show' = 0
    /\ top_idxs' = <<>>
    /\ record' = <<>>
    /\ pc' = "call"
    /\ UNCHANGED <<attributions, text, delta, true_label, max_frac_to_show,
                   match_to_pred, error, argsort_memo, calls, nbvars, sum_identity, given, df,
                   min_positive_score, max_negative_score, df_target,
                   adult_data, adult_test, training_data, testing_data,
                   models, endpoints, endpoint_configs, events, fpc>>

NextAgain == Raise \/ ReturnUnfiltered \/ ReturnFiltered \/ CallAgain

SpecAgain == InitAgain /\ [][NextAgain]_vars

----------------------------------------------------------------------------
(* Vocabulary of the properties.                                           *)

Displayed == record.word_attributions

Returned == pc = "returned"

Positions == 1..Len(attributions)

IsFinite(x) == x.k = "num"

NegOne == FromInt(-1)

Quarter == Rat(1, 4)

Eighth == Rat(1, 8)

\* x == y on doubles: -0.0 and 0.0 are equal, NaN equals nothing.
FEq(x, y) == ~IsNaN(x) /\ ~IsNaN(y) /\ ~FLt(x, y) /\ ~FLt(y, x)

FLe(x, y) == FLt(x, y) \/ FEq(x, y)

IsPositive(x) == FLt(Zero, x)

IsNegative(x) == FLt(x, Zero)

\* out is in / m, as the division of doubles gives it
Scaled(out, m, in) == FEq(out, FDiv(in, m))

AbsLe1(x) == FLe(x, One) /\ FLe(NegOne, x)

AbsIs1(x) == FEq(x, One) \/ FEq(x, NegOne)

NonDegenerate == \E i \in Positions : ~IsZero(attributions[i])

AllZero == Len(attributions) > 0 /\ \A i \in Positions : IsZero(attributions[i])

\* The largest absolute value of the input vector (non-empty vectors).
LargestAbs ==
    LET A == {IF IsNegative(attributions[i])
              THEN [attributions[i] EXCEPT !.s = 0]
              ELSE attributions[i] : i \in Positions}
    IN  CHOOSE m \in A : \A x \in A : FLe(x, m)

\* A salience fraction below 1 is supplied.
Filtered == ~max_frac_to_show.none /\ FLt(max_frac_to_show.v, One)

Unfiltered == max_frac_to_show.none \/ FEq(max_frac_to_show.v, One)

Selected == {top_idxs[j] : j \in 1..Len(top_idxs)}

Kept(i) == ~Filtered \/ i \in Selected

\* floor(f * n) for the supplied fraction f >= 0 and the double f * n
FloorK ==
    LET fn == FMul(max_frac_to_show.v, FromInt(Len(attributions)))
    IN  CHOOSE k \in 0..Len(attributions) :
            FLe(FromInt(k), fn) /\ FLt(fn, FromInt(k + 1))

\* Position i of the displayed vector holds the value position i has in
\* the (possibly normalized) attribution vector.
HoldsOwnValue(i) ==
    IF ~normalize THEN Displayed[i] = attributions[i]
    ELSE IF NonDegenerate
         THEN IsFinite(Displayed[i])
              /\ Scaled(Displayed[i], LargestAbs, attributions[i])
         ELSE IsNaN(Displayed[i])

\* The vector the ranking of a call is made on: the attributions, divided
\* by their largest absolute value when the call normalizes.  (For the
\* all-zero vector the zeros themselves: its quotients are all NaN, which
\* tie in the sort as the zeros do.)
RankBase(norm) ==
    IF norm /\ NonDegenerate
    THEN LET m == LargestAbs
         IN  Array([i \in Positions |-> FDiv(attributions[i], m)])
    ELSE attributions

\* The ranking values of that vector: its entries, negated when neg, in
\* absolute value when match_to_pred is false.
RanksAs(norm, neg) ==
    LET a == RankBase(norm)
    IN  Array([i \in 1..Len(a) |->
                  LET x == IF neg THEN [a[i] EXCEPT !.s = 1 - a[i].s] ELSE a[i]
                  IN  IF ~match_to_pred THEN [x EXCEPT !.s = 0] ELSE x])

\* The ranking values of the call: negated when the prediction is below
\* 0.5.
Ranks == RanksAs(normalize, FLt(pred, Half))

Example == <<Point2, NegPoint8, Point1>>

----------------------------------------------------------------------------
(* C1: with normalize=True, a vector with a non-zero entry is divided      *)
(* entry by entry by its largest absolute value, so that the largest       *)
(* absolute value of the result is exactly 1; [0.2, -0.8, 0.1] becomes     *)
(* [0.25, -1.0, 0.125].  (Under a salience fraction the statement is made  *)
(* of the entries that are kept.)                                          *)
C1_NormalizeDividesByLargestAbs ==
    (Returned /\ normalize /\ NonDegenerate) =>
        /\ Len(Displayed) = Len(attributions)
        /\ \A i \in Positions :
              Kept(i) => /\ IsFinite(Displayed[i])
                         /\ Scaled(Displayed[i], LargestAbs, attributions[i])
        /\ Unfiltered =>
              /\ \A i \in Positions : AbsLe1(Displayed[i])
              /\ \E i \in Positions : AbsIs1(Displayed[i])
        /\ (Unfiltered /\ attributions = Example) =>
              Displayed = <<Quarter, NegOne, Eighth>>

C1_Witness ==
    /\ Returned /\ normalize /\ Unfiltered
    /\ attributions = Example
    /\ Displayed = <<Quarter, NegOne, Eighth>>

(* C2: normalizing an all-zero vector returns the all-zero vector          *)
(* unchanged, with no error and no undefined (NaN) entry.                  *)
C2_ZeroVectorUnchanged ==
    (pc # "call" /\ normalize /\ AllZero) =>
        /\ Returned
        /\ Len(Displayed) = Len(attributions)
        /\ \A i \in Positions : IsZero(Displayed[i])

(* C3: an empty attribution vector gives a record with an empty displayed  *)
(* vector and no error, whatever normalize, max_frac_to_show and           *)
(* match_to_pred are.                                                      *)
C3_EmptyVectorNoError ==
    (pc # "call" /\ Len(attributions) = 0) =>
        (Returned /\ error = "" /\ Displayed = <<>>)

(* C4: under a salience fraction f < 1 exactly floor(f * n) positions are  *)
(* selected, every other position of the displayed vector is 0, and every  *)
(* selected position keeps the value it has in the (possibly normalized)   *)
(* attribution vector.                                                     *)
C4_SelectsFloorKAndZeroesTheRest ==
    (Returned /\ Filtered) =>
        /\ num_show = FloorK
        /\ Cardinality(Selected) = FloorK
        /\ Selected \subseteq Positions
        /\ Len(Displayed) = Len(attributions)
        /\ \A i \in Positions :
              IF i \in Selected THEN HoldsOwnValue(i) ELSE IsZero(Displayed[i])

\* C4 outside the case of C2 (an all-zero vector under normalization).
C4_HoldsOffTheZeroVector ==
    (normalize /\ AllZero) \/ C4_SelectsFloorKAndZeroesTheRest

(* C5: the positions kept are k largest entries of the ranking vector      *)
(* (the attributions, negated when prediction < 0.5, then in absolute      *)
(* value when match_to_pred is false): no position left out ranks above a  *)
(* position kept.  [0.2, -0.8, 0.1] with prediction 0.3, f = 0.34,         *)
(* match_to_pred false and no normalization keeps index 1 (the second      *)
(* position) and displays [0, -0.8, 0].                                    *)
C5_KeepsTheLargestRanked ==
    (Returned /\ Filtered) =>
        /\ LET r == Ranks
           IN  \A i \in Selected : \A j \in Positions \ Selected :
                   FLe(r[j], r[i])
        /\ ( /\ attributions = Example /\ pred = Point3
             /\ max_frac_to_show.v = Point34
             /\ ~match_to_pred /\ ~normalize )
           => /\ top_idxs = <<2>>
              /\ Displayed = <<Zero, NegPoint8, Zero>>

C5_Witness ==
    /\ Returned /\ attributions = Example /\ pred = Point3
    /\ ~max_frac_to_show.none /\ max_frac_to_show.v = Point34
    /\ ~match_to_pred /\ ~normalize
    /\ Displayed = <<Zero, NegPoint8, Zero>>

\* The selection a stable descending sort of the ranking values r makes:
\* position i is kept when fewer than k positions rank above it or rank
\* equal with a smaller index.
StableTopK(r, k) ==
    {i \in Positions :
        Cardinality({j \in Positions :
                        \/ FLt(r[i], r[j])
                        \/ (FEq(r[i], r[j]) /\ j < i)}) < k}

\* Ranking values tie across the cut: an entry kept by the stable
\* selection equals one it leaves out.
TieAcrossTheCut ==
    LET r == Ranks
        stable == StableTopK(r, FloorK)
    IN  \E i \in stable : \E j \in Positions \ stable : FEq(r[i], r[j])

(* C6 as stated: among equal ranking values that do not all fit in the     *)
(* top k, the ones with the smallest original index are kept, so the       *)
(* selected set is a function of the inputs.                               *)
C6_TiesKeepSmallestIndex ==
    (Returned /\ Filtered) => Selected = StableTopK(Ranks, FloorK)

(* C6 as amended: every position ranking strictly above the k-th largest   *)
(* ranking value is kept, no position ranking strictly below it is kept,   *)
(* and k positions are kept; which of the positions equal to that value    *)
(* are kept is left open.                                                  *)
C6_TiesAtTheCutAreOpen ==
    (Returned /\ Filtered /\ FloorK > 0) =>
        LET r == Ranks
            above(i) == {j \in Positions : FLt(r[i], r[j])}
            atleast(i) == {j \in Positions : FLe(r[i], r[j])}
            cut == CHOOSE c \in Positions :
                      /\ Cardinality(above(c)) < FloorK
                      /\ FloorK <= Cardinality(atleast(c))
        IN  /\ Cardinality(Selected) = FloorK
            /\ \A i \in Positions :
                  /\ FLt(r[cut], r[i]) => i \in Selected
                  /\ FLt(r[i], r[cut]) => i \notin Selected

C6_Witness ==
    /\ Returned /\ Filtered /\ FloorK > 0
    /\ ~(normalize /\ AllZero)
    /\ TieAcrossTheCut
    /\ Selected # StableTopK(Ranks, FloorK)

(* C7: with f = 1 or f unset the selection is a no-op: the displayed       *)
(* vector is the (possibly normalized) attribution vector entry for entry, *)
(* for every prediction and every match_to_pred.                           *)
C7_FullFractionIsNoOp ==
    (Returned /\ Unfiltered) =>
        /\ Len(Displayed) = Len(attributions)
        /\ \A i \in Positions : HoldsOwnValue(i)
        /\ top_idxs = <<>>

C7_Witness ==
    /\ Returned /\ Unfiltered /\ NonDegenerate
    /\ Len(attributions) = MaxLen
    /\ FLt(pred, Half) /\ match_to_pred
    /\ \E i \in Positions : IsNegative(attributions[i]) /\ IsNegative(Displayed[i])
    /\ \E i \in Positions : IsPositive(attributions[i]) /\ IsPositive(Displayed[i])

(* C8: whenever k = floor(f * n) is 0 the selection is valid and the       *)
(* displayed vector has length n and only zero entries (stated of the      *)
(* vectors of length n >= 1).                                              *)
C8_ZeroKGivesAllZero ==
    (pc # "call" /\ Filtered /\ FloorK = 0 /\ Len(attributions) > 0) =>
        /\ Returned
        /\ Len(Displayed) = Len(attributions)
        /\ \A i \in Positions : IsZero(Displayed[i])

\* C8 outside the case of C2 (an all-zero vector under normalization).
C8_HoldsOffTheZeroVector ==
    (normalize /\ AllZero) \/ C8_ZeroKGivesAllZero

(* C9 as stated: normalization changes neither the sign of an attribution *)
(* nor the order of two attributions of a vector with a non-zero entry:    *)
(* in[i] < in[j] exactly when out[i] < out[j].                             *)
C9_NormalizeKeepsSignAndOrder ==
    (Returned /\ normalize /\ NonDegenerate) =>
        \A i, j \in Positions :
            (Kept(i) /\ Kept(j)) =>
                /\ IsFinite(Displayed[i])
                /\ (IsPositive(Displayed[i])) = (IsPositive(attributions[i]))
                /\ (IsNegative(Displayed[i])) = (IsNegative(attributions[i]))
                /\ FLt(attributions[i], attributions[j])
                      = FLt(Displayed[i], Displayed[j])

(* C9 as amended: normalization flips no sign and reverses no order: a     *)
(* positive attribution does not become negative nor a negative one        *)
(* positive, a zero stays zero, and in[i] < in[j] gives out[i] <= out[j];  *)
(* two attributions that differ can be normalized to the same double.      *)
C9_NormalizeNeverReversesSignOrOrder ==
    (Returned /\ normalize /\ NonDegenerate) =>
        \A i, j \in Positions :
            (Kept(i) /\ Kept(j)) =>
                /\ IsFinite(Displayed[i])
                /\ IsPositive(Displayed[i]) => IsPositive(attributions[i])
                /\ IsNegative(Displayed[i]) => IsNegative(attributions[i])
                /\ IsZero(attributions[i]) => IsZero(Displayed[i])
                /\ FLt(attributions[i], attributions[j])
                      => FLe(Displayed[i], Displayed[j])
                /\ FLt(Displayed[i], Displayed[j])
                      => FLt(attributions[i], attributions[j])

C9_Witness ==
    /\ Returned /\ normalize /\ Unfiltered
    /\ \E i, j \in Positions :
          /\ FLt(attributions[i], attributions[j])
          /\ FEq(Displayed[i], Displayed[j])
    /\ \E i, j \in Positions :
          /\ FLt(attributions[i], attributions[j])
          /\ FLt(Displayed[i], Displayed[j])
          /\ Displayed[i] # attributions[i]

(* C10: normalization is idempotent: normalizing the normalized form of a  *)
(* vector with a non-zero entry returns it unchanged, and its largest      *)
(* absolute value stays 1.                                                 *)
C10_NormalizeIdempotent ==
    (Returned /\ normalize /\ NonDegenerate /\ Unfiltered) =>
        LET again == Normalized(Displayed)
        IN  /\ again = Displayed
            /\ \A i \in Positions : AbsLe1(again[i])
            /\ \E i \in Positions : AbsIs1(again[i])

C10_Witness ==
    /\ Returned /\ normalize /\ Unfiltered
    /\ Displayed # attributions
    /\ Len(Displayed) = MaxLen
    /\ Normalized(Displayed) = Displayed
    /\ \E i \in Positions : ~IsZero(Displayed[i]) /\ ~AbsIs1(Displayed[i])

(* C12: predicted_class is 1 exactly when prediction > 0.5 and 0           *)
(* otherwise, whatever the attributions and the display options are: a     *)
(* prediction of exactly 0.5 gives class 0, one of 0.500001 gives class 1. *)
C12_PredictedClassStrictThreshold ==
    Returned =>
        /\ record.pred_class = (IF FGt(pred, Half) THEN 1 ELSE 0)
        /\ pred = Half => record.pred_class = 0
        /\ pred = JustOverHalf => record.pred_class = 1
        /\ record.pred_prob = pred

C12_Witness ==
    /\ Returned /\ pred = JustOverHalf /\ record.pred_class = 1
    /\ normalize /\ Filtered /\ NonDegenerate

\* The sum of the first n entries of a sequence of doubles, each entry
\* added to the sum of those before it.
RECURSIVE SumOfFirst(_, _)
SumOfFirst(s, n) ==
    IF n = 0 THEN Zero ELSE FAdd(SumOfFirst(s, n - 1), s[n])

SumOf(s) == SumOfFirst(s, Len(s))

(* C13: attribution_total is the sum of the displayed attributions (those  *)
(* left by normalization and masking, not the raw input) and               *)
(* attribution_sign is true exactly when that sum is strictly above 0; a   *)
(* sum of exactly 0 gives false.  (Where the displayed vector holds NaN,   *)
(* the case of C2, the sum is NaN and the sign is false.)                  *)
C13_TotalAndSignOfDisplayed ==
    Returned =>
        IF \A i \in 1..Len(Displayed) : IsFinite(Displayed[i])
        THEN LET t == SumOf(Displayed)
             IN  /\ IsFinite(record.attr_score)
                 /\ FEq(record.attr_score, t)
                 /\ record.attr_class = IsPositive(t)
        ELSE /\ IsNaN(record.attr_score)
             /\ record.attr_class = FALSE

C13_Witness ==
    /\ Returned /\ Filtered /\ normalize /\ NonDegenerate
    /\ IsNegative(record.attr_score) /\ record.attr_class = FALSE
    /\ IsPositive(SumOf(attributions))
    /\ \E i \in Positions : IsZero(Displayed[i]) /\ IsPositive(attributions[i])

----------------------------------------------------------------------------
(* create_target_column of the text explainability notebook: the reviews   *)
(* of neutral rating are dropped and the others get their Sentiment.       *)

MaxRows == 3

\* The ratings of the reviews.
Ratings == 1..5

\* The (min_positive_score, max_negative_score) of a call; the notebook
\* calls with (4, 2).
ScorePairs == {<<4, 2>>, <<3, 3>>, <<5, 1>>, <<4, 3>>, <<2, 4>>}

\* The frames of at most MaxRows reviews, each with its index and Rating.
Frames ==
    UNION {{[i \in 1..n |-> [index |-> i, Rating |-> g[i]]] :
               g \in [1..n -> Ratings]} : n \in 0..MaxRows}

\* range(lo, hi)
PyRange(lo, hi) == [i \in 1..(IF hi > lo THEN hi - lo ELSE 0) |-> lo + i - 1]

\* [i for i in range(max_negative_score, min_positive_score)]
NeutralValues_FromMaxNegative(minpos, maxneg) == PyRange(maxneg, minpos)

\* [i for i in range(max_negative_score + 1, min_positive_score)]
NeutralValues(minpos, maxneg) == PyRange(maxneg + 1, minpos)

\* df[df["Rating"] != neutral_value]
DropRating(rows, v) ==
    LET Keeps(r) == r.Rating # v
    IN  SelectSeq(rows, Keeps)

\* for neutral_value in neutral_values: df = df[df["Rating"] != neutral_value]
RECURSIVE DropEach(_, _, _)
DropEach(rows, vals, i) ==
    IF i > Len(vals) THEN rows
    ELSE DropEach(DropRating(rows, vals[i]), vals, i + 1)

\* replace_dict = {True: 1, False: 0}
ReplaceDict(b) == IF b THEN 1 ELSE 0

\* df["Sentiment"] = (df["Rating"] >= min_positive_score).map(replace_dict)
WithSentiment(rows, minpos) ==
    [i \in 1..Len(rows) |->
        [index |-> rows[i].index, Rating |-> rows[i].Rating,
         Sentiment |-> ReplaceDict(rows[i].Rating >= minpos)]]

create_target_column(rows, minpos, maxneg) ==
    WithSentiment(DropEach(rows, NeutralValues(minpos, maxneg), 1), minpos)

InitTarget ==
    /\ attributions = <<>>
    /\ text = <<>>
    /\ pred = Zero
    /\ delta = Zero
    /\ true_label = 0
    /\ normalize = FALSE
    /\ max_frac_to_show = NoFrac
    /\ match_to_pred = FALSE
    /\ num_show = 0
    /\ top_idxs = <<>>
    /\ record = <<>>
    /\ error = ""
    /\ pc = "target"
    /\ argsort_memo = {}
    /\ sum_identity \in {Zero, NegZero}
    /\ calls = <<>>
    /\ NoNotebook /\ NoSecondCall /\ NoFairness
    /\ df \in Frames
    /\ \E sp \in ScorePairs :
          /\ min_positive_score = sp[1]
          /\ max_negative_score = sp[2]
    /\ df_target = <<>>

\* create_target_column(df, min_positive_score, max_negative_score).  With
\* no neutral value the loop does not run, df is still the frame of the
\* caller and the Sentiment column is written into it; otherwise the first
\* filter has made a new frame and the frame of the caller is left alone.
CreateTargetColumn ==
    /\ pc = "target"
    /\ df_target' = create_target_column(df, min_positive_score,
                                         max_negative_score)
    /\ df' = IF Len(NeutralValues(min_positive_score, max_negative_score)) = 0
             THEN WithSentiment(df, min_positive_score)
             ELSE df
    /\ pc' = "target returned"
    /\ UNCHANGED <<args, num_show, top_idxs, record, error, argsort_memo, calls,
                   nbvars, sum_identity, given, first, min_positive_score,
                   max_negative_score, adult_data, adult_test, training_data,
                   testing_data, models, endpoints, endpoint_configs, events,
                   fpc>>

NextTarget == CreateTargetColumn

SpecTarget == InitTarget /\ [][NextTarget]_vars

----------------------------------------------------------------------------
(* The encoding cell of the fairness notebook                              *)
(* (src/sagemaker_processing/fairness_and_explainability): the columns of  *)
(* strings of the training and of the testing data are replaced by integer *)
(* codes, each frame by its own call of number_encode_features.            *)

AdultColumns == <<"Age", "Workclass", "Sex">>

\* result.dtypes[column] == np.dtype(object): the columns of strings
IsObjectColumn(column) == column \in {"Workclass", "Sex"}

\* The rows a frame read from adult.data or adult.test can hold (after
\* dropna).
AdultRows ==
    [Age : {39}, Workclass : {"Private", "State-gov"}, Sex : {"Female", "Male"}]

AdultFrames == UNION {[1..n -> AdultRows] : n \in 1..MaxRows}

\* The strings of the columns in the order np.unique sorts them.
SortedStrings == <<"Female", "Male", "None", "Private", "State-gov">>

StrLt(u, v) ==
    LET Pos(w) == CHOOSE i \in 1..Len(SortedStrings) : SortedStrings[i] = w
    IN  Pos(u) < Pos(v)

\* result[column].fillna("None")
FillNa(v) == IF v = "nan" THEN "None" ELSE v

ColumnOf(rows, column) == [i \in 1..Len(rows) |-> FillNa(rows[i][column])]

\* LabelEncoder().fit_transform(values): classes_ is the sorted array of the
\* distinct values, and each value becomes its position in classes_, from 0.
FitTransform(values) ==
    LET classes == {values[i] : i \in 1..Len(values)}
    IN  [i \in 1..Len(values) |->
            Cardinality({u \in classes : StrLt(u, values[i])})]

number_encode_features(rows) ==
    [i \in 1..Len(rows) |->
        [column \in {AdultColumns[c] : c \in 1..Len(AdultColumns)} |->
            IF IsObjectColumn(column)
            THEN FitTransform(ColumnOf(rows, column))[i]
            ELSE rows[i][column]]]

InitEncode ==
    /\ attributions = <<>>
    /\ text = <<>>
    /\ pred = Zero
    /\ delta = Zero
    /\ true_label = 0
    /\ normalize = FALSE
    /\ max_frac_to_show = NoFrac
    /\ match_to_pred = FALSE
    /\ num_show = 0
    /\ top_idxs = <<>>
    /\ record = <<>>
    /\ error = ""
    /\ pc = "idle"
    /\ argsort_memo = {}
    /\ sum_identity \in {Zero, NegZero}
    /\ calls = <<>>
    /\ NoNotebook /\ NoSecondCall /\ NoTargetColumn
    /\ adult_data \in AdultFrames
    /\ adult_test \in AdultFrames
    /\ training_data = <<>>
    /\ testing_data = <<>>
    /\ models = {}
    /\ endpoints = {}
    /\ endpoint_configs = {}
    /\ events = <<>>
    /\ fpc = "encode training"

\* training_data, _ = number_encode_features(training_data)
EncodeTraining ==
    /\ fpc = "encode training"
    /\ training_data' = number_encode_features(adult_data)
    /\ fpc' = "encode testing"
    /\ UNCHANGED <<callvars, nbvars, sum_identity, given, first, df, min_positive_score,
                   max_negative_score, df_target, adult_data, adult_test,
                   testing_data, models, endpoints, endpoint_configs, events>>

\* testing_data, _ = number_encode_features(testing_data)
EncodeTesting ==
    /\ fpc = "encode testing"
    /\ testing_data' = number_encode_features(adult_test)
    /\ fpc' = "encoded"
    /\ UNCHANGED <<callvars, nbvars, sum_identity, given, first, df, min_positive_score,
                   max_negative_score, df_target, adult_data, adult_test,
                   training_data, models, endpoints, endpoint_configs, events>>

NextEncode == EncodeTraining \/ EncodeTesting

SpecEncode == InitEncode /\ [][NextEncode]_vars

----------------------------------------------------------------------------
(* The SageMaker resources of the fairness notebook: the model is created, *)
(* the endpoint of fixed name is deployed after an attempt to delete what  *)
(* an earlier run left under that name, the bias and the explainability    *)
(* job use the endpoint, and the Clean Up cell deletes the three.          *)
(* A call of the service either does what it is asked or raises; deleting  *)
(* what does not exist and creating what exists raise.                     *)

\* "DEMO-clarify-model-{}".format(datetime.now()...): a name of this run
model_name == "DEMO-clarify-model-now"

xgb_endpoint_name == "clarify-xgb-adult-example"

Event(op, kind, name, ok) == [op |-> op, kind |-> kind, name |-> name, ok |-> ok]

\* session.delete_...(name): the outcomes of the call.
DeleteOutcomes(existing, name) ==
    IF name \in existing
    THEN {[ok |-> TRUE, after |-> existing \ {name}],
          [ok |-> FALSE, after |-> existing]}
    ELSE {[ok |-> FALSE, after |-> existing]}

InitResources ==
    /\ attributions = <<>>
    /\ text = <<>>
    /\ pred = Zero
    /\ delta = Zero
    /\ true_label = 0
    /\ normalize = FALSE
    /\ max_frac_to_show = NoFrac
    /\ match_to_pred = FALSE
    /\ num_show = 0
    /\ top_idxs = <<>>
    /\ record = <<>>
    /\ error = ""
    /\ pc = "idle"
    /\ argsort_memo = {}
    /\ sum_identity \in {Zero, NegZero}
    /\ calls = <<>>
    /\ NoNotebook /\ NoSecondCall /\ NoTargetColumn
    /\ adult_data = <<>>
    /\ adult_test = <<>>
    /\ training_data = <<>>
    /\ testing_data = <<>>
    \* what an earlier run of the notebook can have left in the account
    /\ models \in {{}, {"DEMO-clarify-model-earlier"}}
    /\ endpoints \in SUBSET {xgb_endpoint_name}
    /\ endpoint_configs \in SUBSET {xgb_endpoint_name}
    /\ events = <<>>
    /\ fpc = "delete model"

\* try: session.delete_model(model_name) except: pass
TryDeleteModel ==
    /\ fpc = "delete model"
    /\ \E out \in DeleteOutcomes(models, model_name) :
          /\ models' = out.after
          /\ events' = Append(events, Event("delete", "model", model_name, out.ok))
    /\ fpc' = "create model"
    /\ UNCHANGED <<callvars, nbvars, sum_identity, given, first, df, min_positive_score,
                   max_negative_score, df_target, adult_data, adult_test,
                   training_data, testing_data, endpoints, endpoint_configs>>

\* session.create_model(model_name, role, container_def)
CreateModel ==
    /\ fpc = "create model"
    /\ \/ /\ model_name \notin models
          /\ models' = models \cup {model_name}
          /\ events' = Append(events, Event("create", "model", model_name, TRUE))
          /\ fpc' = "delete endpoint"
       \/ /\ events' = Append(events, Event("create", "model", model_name, FALSE))
          /\ fpc' = "failed"
          /\ UNCHANGED models
    /\ UNCHANGED <<callvars, nbvars, sum_identity, given, first, df, min_positive_score,
                   max_negative_score, df_target, adult_data, adult_test,
                   training_data, testing_data, endpoints, endpoint_configs>>

\* try: session.delete_endpoint(xgb_endpoint_name) except: pass
TryDeleteEndpoint ==
    /\ fpc = "delete endpoint"
    /\ \E out \in DeleteOutcomes(endpoints, xgb_endpoint_name) :
          /\ endpoints' = out.after
          /\ events' = Append(events, Event("delete", "endpoint",
                                            xgb_endpoint_name, out.ok))
    /\ fpc' = "delete endpoint config"
    /\ UNCHANGED <<callvars, nbvars, sum_identity, given, first, df, min_positive_score,
                   max_negative_score, df_target, adult_data, adult_test,
                   training_data, testing_data, models, endpoint_configs>>

\* try: session.delete_endpoint_config(xgb_endpoint_name) except: pass
TryDeleteEndpointConfig ==
    /\ fpc = "delete endpoint config"
    /\ \E out \in DeleteOutcomes(endpoint_configs, xgb_endpoint_name) :
          /\ endpoint_configs' = out.after
          /\ events' = Append(events, Event("delete", "endpoint_config",
                                            xgb_endpoint_name, out.ok))
    /\ fpc' = "deploy"
    /\ UNCHANGED <<callvars, nbvars, sum_identity, given, first, df, min_positive_score,
                   max_negative_score, df_target, adult_data, adult_test,
                   training_data, testing_data, models, endpoints>>

\* xgb.deploy(model_name=model_name, ..., endpoint_name=xgb_endpoint_name)
\* creates the endpoint config, then the endpoint: it succeeds, or raises
\* before it has created anything, or raises on the endpoint with the
\* endpoint config it has just created left behind.
Deploy ==
    /\ fpc = "deploy"
    /\ \/ /\ xgb_endpoint_name \notin endpoints
          /\ xgb_endpoint_name \notin endpoint_configs
          /\ model_name \in models
          /\ endpoint_configs' = endpoint_configs \cup {xgb_endpoint_name}
          /\ endpoints' = endpoints \cup {xgb_endpoint_name}
          /\ events' = events \o
                <<Event("use", "model", model_name, TRUE),
                  Event("create", "endpoint_config", xgb_endpoint_name, TRUE),
                  Event("create", "endpoint", xgb_endpoint_name, TRUE)>>
          /\ fpc' = "run bias"
       \/ /\ events' = Append(events, Event("create", "endpoint_config",
                                            xgb_endpoint_name, FALSE))
          /\ fpc' = "failed"
          /\ UNCHANGED <<endpoints, endpoint_configs>>
       \/ /\ xgb_endpoint_name \notin endpoint_configs
          /\ endpoint_configs' = endpoint_configs \cup {xgb_endpoint_name}
          /\ events' = events \o
                <<Event("create", "endpoint_config", xgb_endpoint_name, TRUE),
                  Event("create", "endpoint", xgb_endpoint_name, FALSE)>>
          /\ fpc' = "failed"
          /\ UNCHANGED endpoints
    /\ UNCHANGED <<callvars, nbvars, sum_identity, given, first, df, min_positive_score,
                   max_negative_score, df_target, adult_data, adult_test,
                   training_data, testing_data, models>>

\* A Clarify job run against the endpoint (ModelConfig(endpoint_name=...)).
ClarifyJob(cell, next) ==
    /\ fpc = cell
    /\ \/ /\ xgb_endpoint_name \in endpoints
          /\ events' = events \o
                <<Event("use", "endpoint", xgb_endpoint_name, TRUE),
                  Event("use", "endpoint_config", xgb_endpoint_name, TRUE),
                  Event("use", "model", model_name, TRUE)>>
          /\ fpc' = next
       \/ /\ events' = Append(events, Event("use", "endpoint",
                                            xgb_endpoint_name, FALSE))
          /\ fpc' = "failed"
    /\ UNCHANGED <<callvars, nbvars, sum_identity, given, first, df, min_positive_score,
                   max_negative_score, df_target, adult_data, adult_test,
                   training_data, testing_data, models, endpoints, endpoint_configs>>

\* clarify_processor.run_bias(...)
RunBias == ClarifyJob("run bias", "run explainability")

\* clarify_processor.run_explainability(...)
RunExplainabilityAdult == ClarifyJob("run explainability", "clean up model")

\* Clean Up: session.delete_model(model_name)
CleanUpDeleteModel ==
    /\ fpc = "clean up model"
    /\ \E out \in DeleteOutcomes(models, model_name) :
          /\ models' = out.after
          /\ events' = Append(events, Event("delete", "model", model_name, out.ok))
          /\ fpc' = IF out.ok THEN "clean up endpoint" ELSE "failed"
    /\ UNCHANGED <<callvars, nbvars, sum_identity, given, first, df, min_positive_score,
                   max_negative_score, df_target, adult_data, adult_test,
                   training_data, testing_data, endpoints, endpoint_configs>>

\* Clean Up: session.delete_endpoint(xgb_endpoint_name)
CleanUpDeleteEndpoint ==
    /\ fpc = "clean up endpoint"
    /\ \E out \in DeleteOutcomes(endpoints, xgb_endpoint_name) :
          /\ endpoints' = out.after
          /\ events' = Append(events, Event("delete", "endpoint",
                                            xgb_endpoint_name, out.ok))
          /\ fpc' = IF out.ok THEN "clean up endpoint config" ELSE "failed"
    /\ UNCHANGED <<callvars, nbvars, sum_identity, given, first, df, min_positive_score,
                   max_negative_score, df_target, adult_data, adult_test,
                   training_data, testing_data, models, endpoint_configs>>

\* Clean Up without its last line
CleanUpDeleteEndpointConfig_Missing ==
    /\ fpc = "clean up endpoint config"
    /\ fpc' = "done"
    /\ UNCHANGED <<callvars, nbvars, sum_identity, given, first, df, min_positive_score,
                   max_negative_score, df_target, adult_data, adult_test,
                   training_data, testing_data, models, endpoints, endpoint_configs, events>>

\* Clean Up: session.delete_endpoint_config(xgb_endpoint_name)
CleanUpDeleteEndpointConfig ==
    /\ fpc = "clean up endpoint config"
    /\ \E out \in DeleteOutcomes(endpoint_configs, xgb_endpoint_name) :
          /\ endpoint_configs' = out.after
          /\ events' = Append(events, Event("delete", "endpoint_config",
                                            xgb_endpoint_name, out.ok))
          /\ fpc' = IF out.ok THEN "done" ELSE "failed"
    /\ UNCHANGED <<callvars, nbvars, sum_identity, given, first, df, min_positive_score,
                   max_negative_score, df_target, adult_data, adult_test,
                   training_data, testing_data, models, endpoints>>

NextResources ==
    \/ TryDeleteModel \/ CreateModel
    \/ TryDeleteEndpoint \/ TryDeleteEndpointConfig \/ Deploy
    \/ RunBias \/ RunExplainabilityAdult
    \/ CleanUpDeleteModel \/ CleanUpDeleteEndpoint \/ CleanUpDeleteEndpointConfig

SpecResources == InitResources /\ [][NextResources]_vars

----------------------------------------------------------------------------
(* Vocabulary of the properties of the notebook.                           *)

\* Both comprehensions over shap_out have returned.
ParsedOk ==
    \/ bpc \in {"predict", "setup", "loop", "done"}
    \/ (bpc = "failed"
        /\ error \notin {"JSONDecodeError", "TypeError", "KeyError",
                          "IndexError"})

ParseAttempted ==
    /\ bpc \notin {"direct", "sample", "explain", "load", "parse"}
    /\ error # "JSONDecodeError"

\* The m-th line of out.jsonl that is not empty.
NonEmptyLine(m) ==
    file_lines[CHOOSE i \in 1..Len(file_lines) :
                  /\ file_lines[i].kind # "empty"
                  /\ Cardinality({j \in 1..i - 1 : file_lines[j].kind # "empty"}) = m - 1]

NonEmptyCount == Cardinality({i \in 1..Len(file_lines) : file_lines[i].kind # "empty"})

WellFormed(expl) ==
    \A j \in 1..Len(expl.attributions) :
        expl.attributions[j].keys = {"attribution", "description"}

PairedWith(expl, a, t) ==
    /\ Len(a) = Len(expl.attributions)
    /\ Len(t) = Len(expl.attributions)
    /\ \A j \in 1..Len(expl.attributions) :
          /\ a[j] = expl.attributions[j].attribution[1]
          /\ t[j] = expl.attributions[j].partial_text

\* The row of the data whose review instance i of the explanations is.
RowOfInstance(i) == Row(shap_out[i].row)

(* C11: for every instance parsed from the payload the units and the       *)
(* attributions have the same length, and the displayed vector of the      *)
(* record built from it has that length too, for every setting of          *)
(* normalize, max_frac_to_show and match_to_pred.                          *)
C11_UnitsAttributionsDisplayedSameLength ==
    /\ ParsedOk =>
          /\ Len(tokens_dataset) = Len(attributions_dataset)
          /\ \A i \in 1..Len(attributions_dataset) :
                Len(tokens_dataset[i]) = Len(attributions_dataset[i])
    /\ (bpc = "loop" /\ pc = "returned") =>
          /\ Len(record.word_attributions) = Len(tokens_dataset[cur_idx])
          /\ Len(record.raw_input_ids) = Len(tokens_dataset[cur_idx])
    /\ \A k \in 1..Len(vis) :
          Len(vis[k].word_attributions) = Len(tokens_dataset[visited[k]])

C11_Witness ==
    /\ bpc = "done" /\ Len(vis) = NumExamples
    /\ Filtered /\ normalize
    /\ \E k \in 1..Len(vis) :
          /\ Len(vis[k].raw_input_ids) > 2
          /\ Len(vis[k].word_attributions) = Len(vis[k].raw_input_ids)
          /\ \E j \in 1..Len(vis[k].word_attributions) :
                IsZero(vis[k].word_attributions[j])

(* C14: the parser keeps order and pairing: units[i] and attributions[i]   *)
(* of an instance both come from the i-th attribution entry of its record, *)
(* and the instances are in the order of the (non-empty) lines of the      *)
(* payload.                                                                *)
C14_ParserKeepsOrderAndPairing ==
    ParsedOk =>
        /\ Len(attributions_dataset) = NonEmptyCount
        /\ Len(tokens_dataset) = NonEmptyCount
        /\ \A m \in 1..NonEmptyCount :
              PairedWith(NonEmptyLine(m), attributions_dataset[m],
                         tokens_dataset[m])

C14_Witness ==
    /\ ParsedOk
    /\ Len(file_lines) > NonEmptyCount
    /\ \E m \in 1..Len(attributions_dataset) :
          /\ attributions_dataset[m] = Example
          /\ tokens_dataset[m] = <<31, 12, 23>>
    /\ \E m \in 1..Len(attributions_dataset) : attributions_dataset[m] # Example

(* C15: an entry lacking its descriptor or its attribution value is        *)
(* rejected with an error that is surfaced; only the instance holding it   *)
(* aborts, and every other instance of the batch is still parsed, with the *)
(* result it has alone.                                                    *)
C15_MalformedEntryAbortsOnlyItsInstance ==
    ParseAttempted =>
        /\ (\E i \in 1..Len(shap_out) : ~WellFormed(shap_out[i]))
              => error = "KeyError"
        /\ \A i \in 1..Len(shap_out) :
              WellFormed(shap_out[i]) =>
                  \E m \in 1..Len(attributions_dataset) :
                      /\ m <= Len(tokens_dataset)
                      /\ PairedWith(shap_out[i], attributions_dataset[m],
                                    tokens_dataset[m])

(* C16: when the attribution vector and the unit sequence of an instance   *)
(* differ in length a ShapeMismatchError is surfaced and no record is      *)
(* built for the instance.                                                 *)
C16_LengthMismatchIsRejected ==
    (pc # "call" /\ Len(text) # Len(attributions)) =>
        (pc = "raised" /\ error = "ShapeMismatchError" /\ record = <<>>)

(* C17: the true label of the i-th record is the ground-truth label of    *)
(* the dataset row whose text produced the i-th explanation record.        *)
C17_LabelIsThatOfTheExplainedRow ==
    \A k \in 1..Len(vis) :
        vis[k].true_class = RowOfInstance(visited[k]).Sentiment

(* C18: the prediction of the i-th record is the score of the endpoint    *)
(* for the dataset row whose text produced the i-th explanation record.    *)
C18_PredictionIsThatOfTheExplainedRow ==
    /\ \A k \in 1..Len(vis) :
          vis[k].pred_prob = Score(RowOfInstance(visited[k]).id)
    /\ (bpc = "loop" /\ pc \in {"call", "returned", "raised"}) =>
          pred = Score(RowOfInstance(cur_idx).id)
    /\ bpc \in {"setup", "loop", "done"} =>
          /\ Len(preds) = Len(shap_out)
          /\ \A i \in 1..Len(preds) : preds[i] = <<Score(RowOfInstance(i).id)>>

C18_Witness ==
    /\ bpc = "done" /\ Len(vis) = NumExamples
    /\ shap_out[1].row # DfTestLong[1].id
    /\ vis[1].pred_prob = Score(shap_out[1].row)
    /\ vis[1].pred_prob # Score(DfTestLong[1].id)

(* C19: the loop builds exactly one record per explained instance, in      *)
(* instance order, whatever the salience fraction: no record is added,     *)
(* dropped or cut off, also when the predictions or the labels are not as  *)
(* many as the explanations.                                               *)
C19_OneRecordPerInstance ==
    bpc = "done" =>
        /\ Len(vis) = Len(shap_out)
        /\ visited = [i \in 1..Len(shap_out) |-> i]

(* C20: with the calls for the instances of a batch entered in any order   *)
(* and their statements interleaved, a call that returns gives the record  *)
(* the loop of the notebook built for that instance, taken on its own in   *)
(* its turn; it raises only for an instance the loop built no record for,  *)
(* and it raises for the instance the loop stopped on: no result depends   *)
(* on another instance or on what another call left.  No call changes the  *)
(* arrays parsed for the instances or what the loop built.                 *)
C20_InterleavedCallsGiveTheRecordsOfTheLoop ==
    /\ \A i \in DOMAIN calls :
          /\ (calls[i].at = "returned" /\ i <= Len(vis)) =>
                calls[i].record = vis[i]
          /\ calls[i].at = "returned" => ~(bpc = "failed" /\ i = cur_idx)
          /\ calls[i].at = "raised" =>
                /\ i > Len(vis)
                /\ calls[i].error = "ValueError"
          /\ calls[i].text = tokens_dataset[i]
    /\ DOMAIN calls # {} =>
          /\ \A i \in 1..Len(shap_out) :
                PairedWith(shap_out[i], attributions_dataset[i],
                           tokens_dataset[i])
          /\ \A k \in 1..Len(vis) : visited[k] = k

\* Call 1 was entered while call 2 was in progress and has returned, call
\* 2 being still inside the salience branch.
C20_Witness ==
    /\ bpc = "done" /\ Len(vis) = NumExamples
    /\ DOMAIN calls = {1, 2}
    /\ calls[1].entered_during = {2}
    /\ calls[1].at = "returned"
    /\ calls[2].at = "mask"
    /\ calls[1].record = vis[1]
    /\ vis[1] # vis[2]
    /\ vis[1].word_attributions # attributions_dataset[1]
    /\ Filtered /\ normalize /\ match_to_pred

----------------------------------------------------------------------------
(* Vocabulary of the properties of two calls.                              *)

\* The second call has returned.
Twice == first # <<>> /\ pc = "returned"

SameArguments == first # <<>> /\ pred = first.pred /\ normalize = first.normalize

(* C21: visualization_record has no side effect: after the call the        *)
(* attribution array, the tokens, the prediction and the label of the      *)
(* caller are as before, for every normalize, max_frac_to_show and         *)
(* match_to_pred, and a second call with the same arguments returns an     *)
(* equal record.                                                           *)
C21_CallHasNoSideEffect ==
    given # <<>> =>
        /\ attributions = given.attributions
        /\ text = given.text
        /\ true_label = given.true_label
        /\ first = <<>> => pred = given.pred
        /\ first # <<>> =>
              /\ first.attributions = given.attributions
              /\ first.text = given.text
              /\ first.pred = given.pred
        /\ (Twice /\ SameArguments) => record = first.record

C21_Witness ==
    /\ Twice /\ SameArguments
    /\ Filtered /\ normalize /\ NonDegenerate
    /\ attributions = given.attributions
    /\ record = first.record
    /\ \E i, j \in Positions :
          /\ i # j /\ attributions[i] = attributions[j]
          /\ i \in Selected /\ j \notin Selected

\* Entry i of the displayed vector is shown: a number other than 0.
Shown(i) == IsFinite(Displayed[i]) /\ ~IsZero(Displayed[i])

(* C22: with match_to_pred enabled and a fraction below 1 the highlights   *)
(* are limited to the predicted direction: every non-zero displayed        *)
(* attribution is negative when the prediction is below 0.5 and positive   *)
(* when it is above 0.5, for every vector and every k.                     *)
C22_HighlightsOnlyThePredictedDirection ==
    (Returned /\ Filtered /\ match_to_pred) =>
        \A i \in Positions :
            Shown(i) =>
                /\ FLt(pred, Half) => IsNegative(Displayed[i])
                /\ FGt(pred, Half) => IsPositive(Displayed[i])

\* top_idxs is a descending top-k of the ranking values of the call, taken
\* with the vector negated (neg) or not.
RankedAs(neg) ==
    LET r == RanksAs(normalize, neg)
    IN  /\ Len(top_idxs) = FloorK
        /\ \A i \in Selected : \A j \in Positions \ Selected : FLe(r[j], r[i])
        /\ \A m, n \in 1..Len(top_idxs) :
              m < n => FLe(r[top_idxs[n]], r[top_idxs[m]])

\* The call went through the salience branch on a vector it can rank.
Ranked == Returned /\ Filtered /\ ~(normalize /\ AllZero)

(* C26, as stated: the direction of the ranking agrees with the predicted  *)
(* class of the record: the ranking vector is negated exactly when         *)
(* predicted_class is 0, for every prediction, exactly 0.5 included.       *)
C26_RankingAgreesWithPredictedClass ==
    Ranked => RankedAs(record.pred_class = 0)

(* C26, amended: the ranking vector is negated exactly when the            *)
(* prediction is below 0.5.  This agrees with the predicted class (negated *)
(* iff class 0) for every prediction but exactly 0.5, where the class is 0 *)
(* and the vector is not negated.                                          *)
C26_RankingNegatedBelowHalf ==
    Ranked =>
        /\ RankedAs(FLt(pred, Half))
        /\ pred # Half => (FLt(pred, Half) <=> record.pred_class = 0)
        /\ pred = Half => (record.pred_class = 0 /\ RankedAs(FALSE))

C26_Witness ==
    /\ Ranked /\ match_to_pred
    /\ pred = Half
    /\ record.pred_class = 0
    /\ Selected # {}
    /\ RankedAs(FALSE)
    /\ ~RankedAs(TRUE)

(* C27: with match_to_pred false the displayed vector does not depend on   *)
(* the prediction: for two predictions, on either side of 0.5 or not, and  *)
(* the same vector, fraction and normalize, the displayed attributions     *)
(* are the same.                                                           *)
C27_DisplayedIgnoresPredictionWithoutMatch ==
    (Twice /\ ~match_to_pred /\ normalize = first.normalize) =>
        /\ Displayed = first.record.word_attributions
        /\ Filtered => top_idxs = first.top_idxs

C27_Witness ==
    /\ Twice /\ ~match_to_pred /\ normalize = first.normalize
    /\ Filtered /\ NonDegenerate
    /\ FLt(first.pred, Half)
    /\ FGt(pred, Half)
    /\ Displayed = first.record.word_attributions
    /\ \E i, j \in Positions :
          /\ IsNegative(attributions[i]) /\ Shown(i)
          /\ IsPositive(attributions[j]) /\ ~Shown(j)

\* The ranking values of the raw vector are pairwise distinct.
DistinctRaw ==
    LET raw == RanksAs(FALSE, FLt(pred, Half))
    IN  \A i, j \in Positions : i # j => ~FEq(raw[i], raw[j])

\* The ranking values are pairwise distinct before and after the
\* normalization: two attributions next to each other can be normalized to
\* the same double.
DistinctRanking ==
    LET norm == RanksAs(TRUE, FLt(pred, Half))
    IN  /\ DistinctRaw
        /\ \A i, j \in Positions : i # j => ~FEq(norm[i], norm[j])

\* Of two calls that differ in normalize only: the displayed vector of the
\* one that normalized, and of the one that did not.
DisplayedNormalized ==
    IF normalize THEN Displayed ELSE first.record.word_attributions

DisplayedRaw ==
    IF normalize THEN first.record.word_attributions ELSE Displayed

\* The two calls agree: the same indices are kept, and the displayed
\* vector of the call that normalized is that of the other divided by the
\* largest absolute value of the raw vector.
Commute ==
    /\ Filtered => top_idxs = first.top_idxs
    /\ Len(DisplayedNormalized) = Len(DisplayedRaw)
    /\ \A i \in Positions :
          /\ IsFinite(DisplayedNormalized[i])
          /\ Scaled(DisplayedNormalized[i], LargestAbs, DisplayedRaw[i])

(* C28 as stated: normalization and salience selection commute on a vector *)
(* with a non-zero entry and pairwise distinct ranking values: the         *)
(* selection on the normalized vector keeps the indices the selection on   *)
(* the raw vector keeps, and normalize-then-select is select-then-divide   *)
(* by the largest absolute value of the raw vector.                        *)
C28_NormalizeAndSelectCommute ==
    (Twice /\ pred = first.pred /\ normalize # first.normalize
           /\ NonDegenerate /\ DistinctRaw) => Commute

(* C28 as amended: they commute on a vector with a non-zero entry whose    *)
(* ranking values are pairwise distinct and stay so when normalized.       *)
C28_CommuteWhereRanksStayDistinct ==
    (Twice /\ pred = first.pred /\ normalize # first.normalize
           /\ NonDegenerate /\ DistinctRanking) => Commute

C28_Witness ==
    /\ Twice /\ pred = first.pred /\ normalize # first.normalize
    /\ NonDegenerate /\ DistinctRanking /\ Filtered
    /\ attributions = <<Point2, NegPoint8, Zero>>
    /\ top_idxs = first.top_idxs
    /\ Selected = {2}
    /\ DisplayedNormalized = <<Zero, NegOne, Zero>>
    /\ DisplayedRaw = <<Zero, NegPoint8, Zero>>

----------------------------------------------------------------------------
(* Vocabulary of the properties of create_target_column.                   *)

TargetReturned == pc = "target returned"

\* The reviews of df whose Rating lies strictly between the two scores.
Neutral(i) ==
    /\ max_negative_score < df[i].Rating
    /\ df[i].Rating < min_positive_score

KeptIndexes == {i \in 1..Len(df) : ~Neutral(i)}

(* C23: create_target_column(df, min_positive_score, max_negative_score)   *)
(* removes exactly the rows whose Rating lies strictly between             *)
(* max_negative_score and min_positive_score and gives every other row     *)
(* Sentiment 1 when its Rating >= min_positive_score and 0 otherwise; with *)
(* (4, 2) no row of Rating 3 remains, ratings 4 and 5 get 1 and ratings 1  *)
(* and 2 get 0.                                                            *)
C23_DropsNeutralAndLabelsTheRest ==
    TargetReturned =>
        /\ {df_target[k].index : k \in 1..Len(df_target)} = KeptIndexes
        /\ Len(df_target) = Cardinality(KeptIndexes)
        /\ \A k \in 1..Len(df_target) :
              /\ df_target[k].Rating = df[df_target[k].index].Rating
              /\ df_target[k].Sentiment =
                    (IF df_target[k].Rating >= min_positive_score THEN 1 ELSE 0)
        /\ \A k, l \in 1..Len(df_target) :
              k < l => df_target[k].index < df_target[l].index
        /\ (min_positive_score = 4 /\ max_negative_score = 2) =>
              \A k \in 1..Len(df_target) :
                  /\ df_target[k].Rating # 3
                  /\ df_target[k].Rating \in {4, 5} => df_target[k].Sentiment = 1
                  /\ df_target[k].Rating \in {1, 2} => df_target[k].Sentiment = 0

C23_Witness ==
    /\ TargetReturned
    /\ min_positive_score = 4 /\ max_negative_score = 2
    /\ \E i \in 1..Len(df) : df[i].Rating = 3
    /\ \E k \in 1..Len(df_target) :
          df_target[k].Rating = 2 /\ df_target[k].Sentiment = 0
    /\ \E k \in 1..Len(df_target) :
          df_target[k].Rating = 4 /\ df_target[k].Sentiment = 1

----------------------------------------------------------------------------
(* Vocabulary of the properties of the encoding.                           *)

Encoded == fpc = "encoded"

HasSex(rows, v) == \E i \in 1..Len(rows) : rows[i].Sex = v

\* In the encoded frame the rows of Sex v have the code c.
SexIsCoded(rows, coded, v, c) ==
    /\ Len(coded) = Len(rows)
    /\ \A i \in 1..Len(rows) : rows[i].Sex = v => coded[i].Sex = c

C24_CodeIsTheRankAmongTheValuesPresent ==
    Encoded =>
        /\ SexIsCoded(adult_data, training_data, "Female", 0)
        /\ SexIsCoded(adult_test, testing_data, "Female", 0)
        /\ SexIsCoded(adult_data, training_data, "Male",
                      IF HasSex(adult_data, "Female") THEN 1 ELSE 0)
        /\ SexIsCoded(adult_test, testing_data, "Male",
                      IF HasSex(adult_test, "Female") THEN 1 ELSE 0)

(* C29: number_encode_features encodes the training and the testing data   *)
(* consistently: in every column of categories a value that occurs in both *)
(* has the same integer code in both, whatever categories each holds.      *)
C29_SameCodeInBothDatasets ==
    Encoded =>
        \A column \in {"Workclass", "Sex"} :
            \A i \in 1..Len(adult_data) : \A j \in 1..Len(adult_test) :
                adult_data[i][column] = adult_test[j][column]
                    => training_data[i][column] = testing_data[j][column]

----------------------------------------------------------------------------
(* Vocabulary of the properties of the resources.                          *)

\* The resources the notebook creates.
Created ==
    {[kind |-> "model", name |-> model_name],
     [kind |-> "endpoint", name |-> xgb_endpoint_name],
     [kind |-> "endpoint_config", name |-> xgb_endpoint_name]}

Existing(x) ==
    CASE x.kind = "model" -> x.name \in models
      [] x.kind = "endpoint" -> x.name \in endpoints
      [] x.kind = "endpoint_config" -> x.name \in endpoint_configs

\* The positions of events where x was created, used, deleted.
Did(op, x) ==
    {i \in 1..Len(events) :
        /\ events[i].op = op /\ events[i].ok
        /\ events[i].kind = x.kind /\ events[i].name = x.name}

Attempted(op, kind) ==
    \E i \in 1..Len(events) : events[i].op = op /\ events[i].kind = kind

(* C25: when the cells of the fairness notebook have run in order to the   *)
(* end, every resource the notebook created (the model, the endpoint       *)
(* clarify-xgb-adult-example and its endpoint config) has been deleted by  *)
(* the Clean Up cell, each after the last step that uses it (the bias and  *)
(* the explainability job).                                                *)
C25_CleanUpDeletesAfterLastUse ==
    fpc = "done" =>
        \A x \in Created :
            /\ ~Existing(x)
            /\ Did("create", x) # {}
            /\ Cardinality(Did("use", x)) >= 2
            /\ \E d \in Did("delete", x) :
                  /\ \A c \in Did("create", x) : c < d
                  /\ \A u \in Did("use", x) : u < d
            /\ \A d \in Did("delete", x) : \A c \in Did("create", x) :
                  c < d => \A u \in Did("use", x) : u < d

C25_Witness ==
    /\ fpc = "done"
    /\ models = {"DEMO-clarify-model-earlier"}
    /\ endpoints = {} /\ endpoint_configs = {}
    /\ events[3].op = "delete" /\ events[3].kind = "endpoint" /\ events[3].ok
    /\ events[Len(events)] =
          Event("delete", "endpoint_config", xgb_endpoint_name, TRUE)

(* C30: before the endpoint of fixed name is deployed, the deletion of an  *)
(* existing endpoint and of an existing endpoint config of that name is    *)
(* attempted; a failure of either deletion is swallowed and does not       *)
(* prevent the other, and the deployment is attempted afterwards, so that  *)
(* at deploy time no endpoint and no endpoint config of an earlier run     *)
(* still exists.                                                           *)
C30_NothingLeftAtDeployTime ==
    fpc = "deploy" =>
        /\ Attempted("delete", "endpoint")
        /\ Attempted("delete", "endpoint_config")
        /\ xgb_endpoint_name \notin endpoints
        /\ xgb_endpoint_name \notin endpoint_configs

====
